---------------------------- MODULE Spec2Model ----------------------------
(***************************************************************************)
(* MarketPulse / StarkHub: the headline aggregator, the quote resolver,    *)
(* the TTL cache with its call sites, and the deterministic fallback       *)
(* decision engine (src/app.py, src/starkhub.py).                          *)
(*                                                                         *)
(* Conventions.                                                            *)
(*  - Python None is the empty tuple <<>>, a present value v is <<v>>.     *)
(*  - Floats are fixed-point integers in hundredths (25.00 is 2500).       *)
(*  - Text is a tuple of one-character strings, so that lower(), strip(),  *)
(*    split() and substring tests are computed, not assumed.               *)
(*  - An f-string is kept as its template plus the numbers substituted     *)
(*    into it (Txt): two texts are equal iff template and numbers are.     *)
(***************************************************************************)
EXTENDS Integers, Sequences, FiniteSets, TLC

VARIABLES
    \* --- decision engine
    pulse_data,       \* generate_fallback_decision: the pulse_data argument
    headlines,        \* generate_fallback_decision: the headlines argument
    fallback_result,  \* the record returned (<<>> before the first call)
    \* --- quote resolver
    symbol,           \* index into MARKET_SYMBOLS of the symbol being resolved
    yf_hist,          \* what ticker.history() does: raises, or the closes
    stooq_resp,       \* what requests.get() did when it was called (<<>> if not)
    stooq_called,     \* whether the Stooq request was issued
    quote,            \* the value returned by get_market_quote
    quote_pc,         \* "idle" before the call, "returned" after it
    pulse_in,         \* fetch_market_pulse: per symbol, what its providers do
    pulse_out,        \* the list fetch_market_pulse returned
    pulse_pc,         \* "idle" before the call, "returned" / "tui_returned" after it
    \* --- feed aggregator
    feeds,            \* per source: the entries feedparser.parse() would return
    parse_raises,     \* the sources for which feedparser.parse() raises
    items,            \* fetch_headlines: the pooled items
    deduped,          \* fetch_headlines: the deduplicated list
    headlines_raw,    \* the list fetch_headlines returned
    feed_pc,          \* "feeds" while the outside world publishes, "fetched" after a call
    bulked,           \* the sources that published a batch of entries
    \* --- cache table and its call sites
    cache,            \* the cache table: per key, <<>> or <<[value, updated_at]>>
    handler,          \* the handler that ran last ("none" before the first request)
    path,             \* the path it took: "hit", "miss", "no_key", "backend", "fallback", "skipped"
    raised,           \* whether an exception left the handler
    response,         \* the body it returned (<<>> when it raised or returns nothing)
    backend,          \* what the generative backend did in the last decision request
    tui_headlines,    \* StarkHub._headlines
    tui_pulse,        \* StarkHub._pulse
    tui_last_refresh, \* StarkHub._last_refresh
    requests,         \* number of handler calls so far
    ticks,            \* number of clock advances so far
    damaged,          \* number of rows damaged so far
    \* --- concurrent requests on the cache table
    rq,               \* per request process: where it is in its handler and what it holds
    fetches,          \* number of fetches started so far
    last_write,       \* per key: the cache_set call that committed last (<<>> if none)
    \* --- connections of the handlers that call the generative backend directly
    connections,      \* the connections get_db() returned so far: owner and whether still open
    openai_available, \* OPENAI_AVAILABLE: whether "from openai import OpenAI" succeeded
    \* --- network calls of the aggregator and the quote resolver
    net,              \* the fetch in progress: its loop index, the call it waits in, its results
    now               \* int(time.time())

decisionVars == <<pulse_data, headlines, fallback_result>>

quoteVars == <<symbol, yf_hist, stooq_resp, stooq_called, quote, quote_pc,
               pulse_in, pulse_out, pulse_pc>>

feedVars == <<feeds, parse_raises, items, deduped, headlines_raw, feed_pc, bulked>>

webVars == <<cache, handler, path, raised, response, backend,
             tui_headlines, tui_pulse, tui_last_refresh, requests, ticks, damaged>>

reqVars == <<rq, fetches, last_write>>

connVars == <<connections, openai_available>>

netVars == <<net>>

vars == <<decisionVars, quoteVars, feedVars, webVars, reqVars, connVars, netVars, now>>

-----------------------------------------------------------------------------
(* Generic helpers *)

None == <<>>

Some(v) == <<v>>

Min(a, b) == IF a < b THEN a ELSE b

Max(a, b) == IF a > b THEN a ELSE b

Abs(x) == IF x < 0 THEN -x ELSE x

\* Python s[:n]
Take(s, n) == SubSeq(s, 1, Min(n, Len(s)))

\* a list built by a comprehension, as the tuple of its elements
List(f) == <<>> \o f

\* an f-string: its template and the numbers formatted into it
Txt(tpl, args) == [tpl |-> tpl, args |-> args]

-----------------------------------------------------------------------------
(* A component that is not exercised by a specification stays in this state *)

DecisionQuiet ==
    /\ pulse_data = <<>>
    /\ headlines = <<>>
    /\ fallback_result = None

QuoteQuiet ==
    /\ symbol = 1
    /\ yf_hist = [kind |-> "raise", closes |-> <<>>]
    /\ stooq_resp = None
    /\ stooq_called = FALSE
    /\ quote = None
    /\ quote_pc = "idle"
    /\ pulse_in = <<>>
    /\ pulse_out = <<>>
    /\ pulse_pc = "idle"

FeedQuiet ==
    /\ feeds = <<>>
    /\ parse_raises = {}
    /\ items = <<>>
    /\ deduped = <<>>
    /\ headlines_raw = <<>>
    /\ feed_pc = "feeds"
    /\ bulked = {}

CacheKeys == {"headlines", "pulse", "stark_decision"}

WebQuiet ==
    /\ cache = [k \in CacheKeys |-> None]
    /\ handler = "none"
    /\ path = "none"
    /\ raised = FALSE
    /\ response = None
    /\ backend = None
    /\ tui_headlines = <<>>
    /\ tui_pulse = <<>>
    /\ tui_last_refresh = 0
    /\ requests = 0
    /\ ticks = 0
    /\ damaged = 0

ReqQuiet ==
    /\ rq = <<>>
    /\ fetches = 0
    /\ last_write = <<>>

ConnQuiet ==
    /\ connections = <<>>
    /\ openai_available = TRUE

NetQuiet == net = <<>>

-----------------------------------------------------------------------------
(* Configuration *)

\* MARKET_SYMBOLS: (label, symbol, type), in configuration order
MARKET_SYMBOLS ==
    << <<"S&P 500", "GSPC", "index">>,
       <<"NASDAQ", "IXIC", "index">>,
       <<"Dow Jones", "DJI", "index">>,
       <<"VIX", "VIX", "index">>,
       <<"ASX 200", "AXJO", "index">>,
       <<"AUD/USD", "AUDUSD=X", "forex">>,
       <<"Gold", "GC=F", "commodity">>,
       <<"Oil (WTI)", "CL=F", "commodity">>,
       <<"10Y Treasury", "TNX", "bond">> >>

\* starkhub.py STOOQ_SYMBOLS: (label, symbol), in configuration order
STOOQ_SYMBOLS ==
    << <<"S&P 500", "^spx">>, <<"NASDAQ 100", "^ndq">>, <<"Dow Jones", "^dji">>,
       <<"VIX", "^vix">>, <<"ASX 200", "^axjo">>, <<"AUD/USD", "audusd">>,
       <<"Gold", "xauusd">>, <<"Oil (WTI)", "cl.1">>, <<"10Y Treasury", "^tnx">> >>

-----------------------------------------------------------------------------
(* DecisionSynthesizer: generate_fallback_decision *)

\* pulse_dict = {p['label']: p for p in pulse_data if value and pct are not None}
\* (a later entry with the same label replaces an earlier one)
pulse_dict(pd) ==
    LET ok == {i \in DOMAIN pd : pd[i].value # None /\ pd[i].pct # None}
        last(l) == CHOOSE i \in ok : pd[i].label = l /\
                       \A j \in ok : pd[j].label = l => j <= i
    IN  [l \in {pd[i].label : i \in ok} |-> pd[last(l)]]

\* dict.get(key): None when the key is absent
dict_get(d, k) == IF k \in DOMAIN d THEN Some(d[k]) ELSE None

Val(q) == q[1].value[1]

Pct(q) == q[1].pct[1]

\* the rules with the rates test before the volatility test
regime_rates_first(sp500, vix, us10y) ==
    LET base == IF us10y # None /\ Val(us10y) > 400 THEN "RISK-OFF | RATES-LED"
                ELSE IF vix # None /\ Val(vix) > 2000 THEN "RISK-OFF | VOLATILITY-LED"
                ELSE IF sp500 # None /\ Pct(sp500) < -100 THEN "RISK-OFF | EQUITY-LED"
                ELSE IF sp500 # None /\ Pct(sp500) > 100 THEN "RISK-ON | MOMENTUM-LED"
                ELSE "NEUTRAL | DATA-DRIVEN"
    IN  IF us10y # None
        THEN <<Txt(base, <<>>), Txt(" | US10Y at {:.2f}%", <<Val(us10y)>>)>>
        ELSE <<Txt(base, <<>>)>>

\* the regime label (first matching rule), with the 10Y level appended
regime_of(sp500, vix, us10y) ==
    LET base == IF vix # None /\ Val(vix) > 2000 THEN "RISK-OFF | VOLATILITY-LED"
                ELSE IF us10y # None /\ Val(us10y) > 400 THEN "RISK-OFF | RATES-LED"
                ELSE IF sp500 # None /\ Pct(sp500) < -100 THEN "RISK-OFF | EQUITY-LED"
                ELSE IF sp500 # None /\ Pct(sp500) > 100 THEN "RISK-ON | MOMENTUM-LED"
                ELSE "NEUTRAL | DATA-DRIVEN"
    IN  IF us10y # None
        THEN <<Txt(base, <<>>), Txt(" | US10Y at {:.2f}%", <<Val(us10y)>>)>>
        ELSE <<Txt(base, <<>>)>>

\* the bullets with thresholds that a move equal to the threshold clears
what_changed_inclusive(sp500, vix, us10y) ==
    LET a == IF sp500 # None /\ Abs(Pct(sp500)) >= 50
             THEN <<Txt("S&P 500 at {:.2f}, {:+.2f}% -> FORECAST: trend likely to continue near-term",
                        <<Val(sp500), Pct(sp500)>>)>>
             ELSE <<>>
        b == IF us10y # None /\ Abs(Pct(us10y)) >= 10
             THEN <<Txt("US10Y at {:.2f}%, {:+.2f}% -> FORECAST: rate moves likely to drive equity direction",
                        <<Val(us10y), Pct(us10y)>>)>>
             ELSE <<>>
        c == IF vix # None /\ Val(vix) >= 1800
             THEN <<Txt("VIX at {:.2f} -> FORECAST: elevated volatility likely to persist",
                        <<Val(vix)>>)>>
             ELSE <<>>
        l == a \o b \o c
    IN  IF l = <<>>
        THEN <<Txt("Markets consolidating -> FORECAST: awaiting catalyst for direction", <<>>)>>
        ELSE l

what_changed_of(sp500, vix, us10y) ==
    LET a == IF sp500 # None /\ Abs(Pct(sp500)) > 50
             THEN <<Txt("S&P 500 at {:.2f}, {:+.2f}% -> FORECAST: trend likely to continue near-term",
                        <<Val(sp500), Pct(sp500)>>)>>
             ELSE <<>>
        b == IF us10y # None /\ Abs(Pct(us10y)) > 10
             THEN <<Txt("US10Y at {:.2f}%, {:+.2f}% -> FORECAST: rate moves likely to drive equity direction",
                        <<Val(us10y), Pct(us10y)>>)>>
             ELSE <<>>
        c == IF vix # None /\ Val(vix) > 1800
             THEN <<Txt("VIX at {:.2f} -> FORECAST: elevated volatility likely to persist",
                        <<Val(vix)>>)>>
             ELSE <<>>
        l == a \o b \o c
    IN  IF l = <<>>
        THEN <<Txt("Markets consolidating -> FORECAST: awaiting catalyst for direction", <<>>)>>
        ELSE l

winners_of(vix, us10y, gold) ==
    LET a == IF us10y # None /\ Val(us10y) > 400
             THEN <<Txt("Defensive sectors (healthcare, staples) - FORECAST: likely to outperform in higher rate environment", <<>>)>>
             ELSE <<>>
        b == IF vix # None /\ Val(vix) > 2000
             THEN <<Txt("Quality defensives with strong balance sheets - FORECAST: likely to outperform in volatile environment", <<>>)>>
             ELSE <<>>
        c == IF gold # None /\ Pct(gold) > 50
             THEN <<Txt("Gold and real assets - FORECAST: inflation hedge demand likely to persist", <<>>)>>
             ELSE <<>>
        l == a \o b \o c
    IN  IF l = <<>>
        THEN <<Txt("Market-neutral strategies - FORECAST: await clearer direction", <<>>)>>
        ELSE l

losers_of(vix, us10y, nasdaq) ==
    LET a == IF us10y # None /\ Val(us10y) > 400
             THEN <<Txt("Long-duration growth equities - FORECAST: likely to underperform if rates stay elevated", <<>>)>>
             ELSE <<>>
        b == IF vix # None /\ Val(vix) > 2000
             THEN <<Txt("Speculative tech and high-beta names - FORECAST: likely to underperform if volatility persists", <<>>)>>
             ELSE <<>>
        c == IF nasdaq # None /\ Pct(nasdaq) < -100
             THEN <<Txt("Tech sector - FORECAST: underperformance likely to continue if risk-off persists", <<>>)>>
             ELSE <<>>
        l == a \o b \o c
    IN  IF l = <<>>
        THEN <<Txt("High-beta names - FORECAST: vulnerable to volatility spikes", <<>>)>>
        ELSE l

opportunity_zones ==
    << Txt("Quality defensives with pricing power - FORECAST: research companies with strong margins", <<>>),
       Txt("Relative value trades - FORECAST: spread opportunities if dispersion increases", <<>>),
       Txt("Volatility strategies - FORECAST: consider if VIX remains elevated", <<>>) >>

what_breaks_of(vix, us10y) ==
    LET a == IF us10y # None
             THEN << Txt("IF US10Y < {:.2f}% -> FORECAST: regime shifts to risk-on, equity upside likely",
                         <<Val(us10y) - 25>>),
                     Txt("IF US10Y > {:.2f}% -> FORECAST: further equity downside likely",
                         <<Val(us10y) + 25>>) >>
             ELSE <<>>
        b == IF vix # None
             THEN <<Txt("IF VIX < {:.1f} -> FORECAST: risk-on resumes, growth likely to outperform",
                        <<Max(1500, Val(vix) - 500)>>)>>
             ELSE <<>>
    IN  a \o b

\* time horizons whose view is left out when its quote is missing
time_horizons_view_optional(vix, us10y) ==
    [shortTerm |->
        IF vix # None
        THEN [horizon |-> "1-5 days",
              view |-> Txt("FORECAST: Current volatility ({:.1f}) likely to drive intraday moves", <<Val(vix)>>),
              action |-> "Monitor key levels and avoid adding beta until direction clears"]
        ELSE [horizon |-> "1-5 days",
              action |-> "Monitor key levels and avoid adding beta until direction clears"],
     mediumTerm |->
        IF us10y # None
        THEN [horizon |-> "2-8 weeks",
              view |-> Txt("FORECAST: Rate environment ({:.2f}%) likely to drive sector rotation", <<Val(us10y)>>),
              action |-> "Favor quality and defensives until trend reverses"]
        ELSE [horizon |-> "2-8 weeks",
              action |-> "Favor quality and defensives until trend reverses"],
     longTerm |->
        [horizon |-> "3-12 months",
         view |-> Txt("FORECAST: Structural backdrop will determine regime - monitor inflation and policy", <<>>),
         action |-> "Monitor structural shifts and position accordingly"]]

time_horizons_of(vix, us10y) ==
    LET vix_val == IF vix # None THEN Val(vix) ELSE 0
        us10y_val == IF us10y # None THEN Val(us10y) ELSE 0
    IN  [shortTerm |->
            [horizon |-> "1-5 days",
             view |-> IF vix # None
                      THEN Txt("FORECAST: Current volatility ({:.1f}) likely to drive intraday moves", <<vix_val>>)
                      ELSE Txt("FORECAST: Monitor key levels for direction", <<>>),
             action |-> "Monitor key levels and avoid adding beta until direction clears"],
         mediumTerm |->
            [horizon |-> "2-8 weeks",
             view |-> IF us10y # None
                      THEN Txt("FORECAST: Rate environment ({:.2f}%) likely to drive sector rotation", <<us10y_val>>)
                      ELSE Txt("FORECAST: Rate environment likely to drive sector rotation", <<>>),
             action |-> "Favor quality and defensives until trend reverses"],
         longTerm |->
            [horizon |-> "3-12 months",
             view |-> Txt("FORECAST: Structural backdrop will determine regime - monitor inflation and policy", <<>>),
             action |-> "Monitor structural shifts and position accordingly"]]

market_sentiment_of(sp500, vix, us10y) ==
    LET parts == (IF sp500 # None THEN <<Txt("S&P 500 at {:.2f}", <<Val(sp500)>>)>> ELSE <<>>)
              \o (IF vix # None THEN <<Txt("VIX at {:.2f}", <<Val(vix)>>)>> ELSE <<>>)
              \o (IF us10y # None THEN <<Txt("US10Y at {:.2f}%", <<Val(us10y)>>)>> ELSE <<>>)
    IN  IF parts = <<>> THEN <<Txt("current data", <<>>)>> ELSE parts

\* signals that quote the title of the first headline
signals_of_titles(sp500, hl) ==
    LET a == IF sp500 # None
             THEN <<Txt("FORECAST: S&P 500 at {:.2f} ({:+.2f}%) - likely to drive near-term direction",
                        <<Val(sp500), Pct(sp500)>>)>>
             ELSE <<>>
        b == IF Len(hl) > 0
             THEN <<Txt("FORECAST: {} news items monitored, led by {}",
                        <<Len(hl), hl[1].title>>)>>
             ELSE <<>>
    IN  a \o b

signals_of(sp500, hl) ==
    LET a == IF sp500 # None
             THEN <<Txt("FORECAST: S&P 500 at {:.2f} ({:+.2f}%) - likely to drive near-term direction",
                        <<Val(sp500), Pct(sp500)>>)>>
             ELSE <<>>
        b == IF Len(hl) > 0
             THEN <<Txt("FORECAST: {} news items monitored - key events likely to drive volatility",
                        <<Len(hl)>>)>>
             ELSE <<>>
    IN  a \o b

generate_fallback_decision(pd, hl) ==
    LET d == pulse_dict(pd)
        sp500 == dict_get(d, "S&P 500")
        nasdaq == dict_get(d, "NASDAQ")
        vix == dict_get(d, "VIX")
        us10y == dict_get(d, "10Y Treasury")
        gold == dict_get(d, "Gold")
        signals == signals_of(sp500, hl)
    IN  [regime |-> regime_of(sp500, vix, us10y),
         whatChanged |-> Take(what_changed_of(sp500, vix, us10y), 3),
         winners |-> Take(winners_of(vix, us10y, gold), 3),
         losers |-> Take(losers_of(vix, us10y, nasdaq), 3),
         opportunityZones |-> Take(opportunity_zones, 5),
         whatBreaks |-> Take(what_breaks_of(vix, us10y), 3),
         timeHorizons |-> time_horizons_of(vix, us10y),
         structuralContext |-> Txt("FORECAST: Market dynamics driven by current data. Monitor key levels for regime shifts.", <<>>),
         marketSentiment |-> market_sentiment_of(sp500, vix, us10y),
         signals |-> IF signals # <<>> THEN Take(signals, 3)
                     ELSE <<Txt("FORECAST: Monitoring market data for signals", <<>>)>>]

-----------------------------------------------------------------------------
(* Inputs of the decision engine *)

MaxHeadlines == 2

\* (value, pct) pairs tried for each label: both sides of every threshold the
\* engine tests, an absent quote, and quotes with only one of value / pct
QuoteChoices(label) ==
    CASE label = "VIX" ->
            {<<None, None>>, <<Some(1700), Some(0)>>, <<Some(1800), Some(0)>>,
             <<Some(1900), Some(0)>>, <<Some(2000), Some(0)>>,
             <<Some(2500), Some(0)>>, <<Some(2500), None>>}
      [] label = "10Y Treasury" ->
            {<<None, None>>, <<Some(350), Some(0)>>, <<Some(350), Some(20)>>,
             <<Some(400), Some(10)>>, <<Some(450), Some(-20)>>, <<None, Some(20)>>}
      [] label = "S&P 500" ->
            {<<None, None>>, <<Some(5000), Some(-150)>>, <<Some(5000), Some(-100)>>,
             <<Some(5000), Some(-20)>>, <<Some(5000), Some(50)>>, <<Some(5000), Some(60)>>,
             <<Some(5000), Some(100)>>, <<Some(5000), Some(150)>>}
      [] label = "NASDAQ" ->
            {<<None, None>>, <<Some(16000), Some(-150)>>, <<Some(16000), Some(0)>>}
      [] label = "Gold" ->
            {<<None, None>>, <<Some(2300), Some(60)>>, <<Some(2300), Some(0)>>}
      [] label = "ASX 200" ->
            {<<None, None>>, <<Some(7800), Some(10)>>}
      [] OTHER -> {<<None, None>>}

Quote(label, vp) == [label |-> label, value |-> vp[1], pct |-> vp[2]]

\* a pulse list in MARKET_SYMBOLS order, as fetch_market_pulse and the
\* handlers build it
PulseOf(c) == [i \in DOMAIN MARKET_SYMBOLS |-> Quote(MARKET_SYMBOLS[i][1], c[i])]

SampleHeadlines ==
    { [source |-> <<"F", "T">>, title |-> <<"a">>, link |-> <<"x">>, published_ts |-> 100],
      [source |-> <<"F", "T">>, title |-> <<"b">>, link |-> <<"y">>, published_ts |-> 50] }

HeadlineLists == UNION {[1..n -> SampleHeadlines] : n \in 0..MaxHeadlines}

-----------------------------------------------------------------------------
(* Specification of the decision engine: the inputs are drawn in the initial
   state and the engine is applied to them *)

DecisionInit ==
    /\ \E c1 \in QuoteChoices("S&P 500"), c2 \in QuoteChoices("NASDAQ"),
          c4 \in QuoteChoices("VIX"), c5 \in QuoteChoices("ASX 200"),
          c7 \in QuoteChoices("Gold"), c9 \in QuoteChoices("10Y Treasury") :
          pulse_data = PulseOf(<<c1, c2, <<None, None>>, c4, c5, <<None, None>>,
                                 c7, <<None, None>>, c9>>)
    /\ headlines \in HeadlineLists
    /\ fallback_result = None
    /\ QuoteQuiet
    /\ FeedQuiet
    /\ WebQuiet
    /\ ReqQuiet
    /\ ConnQuiet
    /\ NetQuiet
    /\ now = 0

Synthesize ==
    /\ fallback_result = None
    /\ fallback_result' = generate_fallback_decision(pulse_data, headlines)
    /\ UNCHANGED <<pulse_data, headlines>>
    /\ UNCHANGED <<quoteVars, feedVars, webVars, now, reqVars, connVars, netVars>>

DecisionNext == Synthesize

SpecDecision == DecisionInit /\ [][DecisionNext]_vars

-----------------------------------------------------------------------------
(* Claims about the decision engine *)

ListFields(r) ==
    <<r.whatChanged, r.winners, r.losers, r.opportunityZones, r.whatBreaks, r.signals>>

\* C1: for every input, every list field of the record returned by
\* generate_fallback_decision (whatChanged, winners, losers, opportunityZones,
\* whatBreaks, signals) has at least one entry.
C1_EveryListNonEmpty ==
    fallback_result # None =>
        \A i \in 1..6 : Len(ListFields(fallback_result)[i]) >= 1

\* the quote with this label is in the pulse given to the engine, with its
\* value and its pct
Present(label) ==
    \E i \in DOMAIN pulse_data :
        pulse_data[i].label = label /\ pulse_data[i].value # None /\ pulse_data[i].pct # None

QuoteOf(label) ==
    pulse_data[CHOOSE i \in DOMAIN pulse_data :
                   pulse_data[i].label = label /\ pulse_data[i].value # None /\ pulse_data[i].pct # None]

ValueOf(label) == QuoteOf(label).value[1]

PctOf(label) == QuoteOf(label).pct[1]

VolatilityRule == Present("VIX") /\ ValueOf("VIX") > 2000

RatesRule == Present("10Y Treasury") /\ ValueOf("10Y Treasury") > 400

EquityRule == Present("S&P 500") /\ PctOf("S&P 500") < -100

MomentumRule == Present("S&P 500") /\ PctOf("S&P 500") > 100

\* C16: the regime label is that of the first rule that matches, in the
\* order VIX value > 20 (volatility-led), 10Y value > 4.0 (rates-led), S&P 500
\* pct < -1.0 (equity-led), S&P 500 pct > 1.0 (momentum-led), else neutral;
\* the 10Y level is appended exactly when the 10Y quote is present, whichever
\* rule matched; VIX 25, 10Y 3.5, S&P 500 pct -0.2 gives the volatility-led
\* label.
C16_RegimeFirstMatchingRule ==
    fallback_result # None =>
        LET r == fallback_result.regime IN
        /\ VolatilityRule => r[1] = Txt("RISK-OFF | VOLATILITY-LED", <<>>)
        /\ (~VolatilityRule /\ RatesRule) => r[1] = Txt("RISK-OFF | RATES-LED", <<>>)
        /\ (~VolatilityRule /\ ~RatesRule /\ EquityRule) => r[1] = Txt("RISK-OFF | EQUITY-LED", <<>>)
        /\ (~VolatilityRule /\ ~RatesRule /\ ~EquityRule /\ MomentumRule)
              => r[1] = Txt("RISK-ON | MOMENTUM-LED", <<>>)
        /\ (~VolatilityRule /\ ~RatesRule /\ ~EquityRule /\ ~MomentumRule)
              => r[1] = Txt("NEUTRAL | DATA-DRIVEN", <<>>)
        /\ Present("10Y Treasury") =>
              (Len(r) = 2 /\ r[2] = Txt(" | US10Y at {:.2f}%", <<ValueOf("10Y Treasury")>>))
        /\ ~Present("10Y Treasury") => Len(r) = 1
        /\ ( /\ Present("VIX") /\ ValueOf("VIX") = 2500
             /\ Present("10Y Treasury") /\ ValueOf("10Y Treasury") = 350
             /\ Present("S&P 500") /\ PctOf("S&P 500") = -20 )
              => r[1].tpl = "RISK-OFF | VOLATILITY-LED"

\* VIX 25, 10Y 3.5, S&P 500 pct -0.2
C16_Witness ==
    /\ fallback_result # None
    /\ Present("VIX") /\ ValueOf("VIX") = 2500
    /\ Present("10Y Treasury") /\ ValueOf("10Y Treasury") = 350
    /\ Present("S&P 500") /\ PctOf("S&P 500") = -20
    /\ fallback_result.regime = <<Txt("RISK-OFF | VOLATILITY-LED", <<>>),
                                  Txt(" | US10Y at {:.2f}%", <<350>>)>>

\* both the volatility rule and the rates rule match
C16_WitnessTwoRules ==
    /\ fallback_result # None
    /\ VolatilityRule
    /\ RatesRule
    /\ fallback_result.regime[1].tpl = "RISK-OFF | VOLATILITY-LED"

-----------------------------------------------------------------------------
(* QuoteResolver: get_market_quote *)

MaxCloses == 2

MaxLines == 3

\* closes (hundredths) a history row may hold; 0 exercises the prev = 0 guard
CloseValues == {0, 10000, 10100}

\* one cell of hist['Close']: Some(number) when float() accepts it, None when
\* reading or converting it raises
CloseCells == {Some(c) : c \in CloseValues} \cup {None}

\* ticker.history(): an exception (import, network, timeout) or a frame of
\* 0..MaxCloses daily closes
YfOutcomes ==
    {[kind |-> "raise", closes |-> <<>>]} \cup
    {[kind |-> "ok", closes |-> c] :
        c \in UNION {[1..n -> CloseCells] : n \in 0..MaxCloses}}

\* one CSV line split on ",": a field is Some(number) when float() accepts it
\* and None when float() raises ValueError
TextField == None

CsvRow(close) == <<TextField, TextField, TextField, Some(close), Some(close)>>

CsvLines ==
    {CsvRow(c) : c \in CloseValues} \cup
    { <<TextField, TextField, TextField, TextField, TextField>>,   \* header / "N/D"
      <<TextField, Some(10000)>> }                                   \* short line

\* requests.get(): raises (connection, timeout, HTTP status) or a body whose
\* strip().splitlines() is 0..MaxLines lines
StooqResponses ==
    {[kind |-> "raise", lines |-> <<>>]} \cup
    {[kind |-> "ok", lines |-> l] :
        l \in UNION {[1..n -> CsvLines] : n \in 0..MaxLines}}

SymbolType(i) == MARKET_SYMBOLS[i][3]

\* the change in points, with no division and no rule for close_prev = 0
pct_change_in_points(close_last, close_prev) == close_last - close_prev

\* pct = ((close_last - close_prev) / close_prev) * 100.0 if close_prev != 0 else 0.0
\* (in hundredths of a percent, closes in hundredths)
pct_change(close_last, close_prev) ==
    IF close_prev # 0 THEN ((close_last - close_prev) * 10000) \div close_prev ELSE 0

\* how a block of code ends: it returns a value, an exception leaves it, or
\* control falls off its end
Returned(v) == [kind |-> "return", value |-> v]

Raised == [kind |-> "raise", value |-> None]

FellThrough == [kind |-> "fall", value |-> None]

\* the if / elif on len(hist), given the closes float() produced: the pair
\* returned, or None when neither branch returns
yf_quote(closes) ==
    IF Len(closes) >= 2
    THEN Some(<<closes[Len(closes)], pct_change(closes[Len(closes)], closes[Len(closes) - 1])>>)
    ELSE IF Len(closes) = 1
    THEN Some(<<closes[1], 0>>)
    ELSE None

\* the body of the outer try
yf_body(hist) ==
    IF hist.kind = "raise" THEN Raised
    ELSE LET c == hist.closes
             n == Len(c)
         IN  IF n >= 2
             THEN IF c[n] = None \/ c[n - 1] = None THEN Raised
                  ELSE Returned(yf_quote(<<c[n - 1][1], c[n][1]>>))
             ELSE IF n = 1
             THEN IF c[1] = None THEN Raised ELSE Returned(yf_quote(<<c[1][1]>>))
             ELSE FellThrough

\* the body of the inner try, asking for 2 lines only (a header and one row)
stooq_body_two_lines(resp) ==
    IF resp.kind = "raise" THEN Raised
    ELSE LET lines == resp.lines IN
         IF Len(lines) >= 2
         THEN LET last == lines[Len(lines)]
                  prev == lines[Len(lines) - 1]
              IN  IF Len(last) >= 5 /\ Len(prev) >= 5
                  THEN IF last[5] = None \/ prev[5] = None
                       THEN Raised
                       ELSE Returned(Some(<<last[5][1], pct_change(last[5][1], prev[5][1])>>))
                  ELSE FellThrough
         ELSE FellThrough

\* the body of the inner try (the Stooq request and the parsing of its CSV)
stooq_body(resp) ==
    IF resp.kind = "raise" THEN Raised
    ELSE LET lines == resp.lines IN
         IF Len(lines) >= 3
         THEN LET last == lines[Len(lines)]
                  prev == lines[Len(lines) - 1]
              IN  IF Len(last) >= 5 /\ Len(prev) >= 5
                  THEN IF last[5] = None \/ prev[5] = None
                       THEN Raised       \* float() raises ValueError
                       ELSE Returned(Some(<<last[5][1], pct_change(last[5][1], prev[5][1])>>))
                  ELSE FellThrough
         ELSE FellThrough

\* the inner try without its "except Exception as ex"
stooq_unguarded(resp) == stooq_body(resp)

\* the inner try with its "except Exception as ex": the exception is printed
\* and control falls to the end of the handler
stooq_guarded(resp) ==
    IF stooq_body(resp).kind = "raise" THEN FellThrough ELSE stooq_body(resp)

\* the Stooq block of the except handler: the pair returned, or None
stooq_quote_of(resp) ==
    IF stooq_guarded(resp).kind = "return" THEN stooq_guarded(resp).value ELSE None

\* the Stooq request is issued only inside "except Exception", for type index
stooq_is_called(symbol_type, hist) ==
    yf_body(hist).kind = "raise" /\ symbol_type = "index"

\* how get_market_quote(symbol, symbol_type) ends, given what the two
\* providers do: what falls off the try or the handler reaches "return None"
get_market_quote_outcome(symbol_type, hist, resp) ==
    IF yf_body(hist).kind = "return" THEN yf_body(hist)
    ELSE IF yf_body(hist).kind = "fall" THEN Returned(None)
    ELSE IF symbol_type # "index" THEN Returned(None)
    ELSE IF stooq_guarded(resp).kind = "fall" THEN Returned(None)
    ELSE stooq_guarded(resp)

\* the value get_market_quote returns
get_market_quote(symbol_type, hist, resp) ==
    get_market_quote_outcome(symbol_type, hist, resp).value

\* starkhub.py stooq_quote: the body of its try (last[4] raises IndexError on
\* a short row, float() raises ValueError)
tui_stooq_body(resp) ==
    IF resp.kind = "raise" THEN Raised
    ELSE LET lines == resp.lines IN
         IF Len(lines) < 3 THEN Returned(None)
         ELSE LET last == lines[Len(lines)]
                  prev == lines[Len(lines) - 1]
              IN  IF Len(last) < 5 \/ Len(prev) < 5 THEN Raised
                  ELSE IF last[5] = None \/ prev[5] = None THEN Raised
                  ELSE Returned(Some(<<last[5][1], pct_change(last[5][1], prev[5][1])>>))

\* starkhub.py stooq_quote: "except Exception: return None"
stooq_quote_outcome(resp) ==
    IF tui_stooq_body(resp).kind = "raise" THEN Returned(None) ELSE tui_stooq_body(resp)

\* after a call: "returned", or "raised" when an exception left the function
pc_after(outcome) == IF outcome.kind = "raise" THEN "raised" ELSE "returned"

NoResponse == [kind |-> "raise", lines |-> <<>>]

QuoteInit ==
    /\ symbol \in DOMAIN MARKET_SYMBOLS
    /\ yf_hist \in YfOutcomes
    /\ stooq_resp = None
    /\ stooq_called = FALSE
    /\ quote = None
    /\ quote_pc = "idle"
    /\ pulse_in = <<>>
    /\ pulse_out = <<>>
    /\ pulse_pc = "idle"
    /\ DecisionQuiet
    /\ FeedQuiet
    /\ WebQuiet
    /\ ReqQuiet
    /\ ConnQuiet
    /\ NetQuiet
    /\ now = 0

\* the try body returns or falls through, or it raises for a symbol that is
\* not an index: Stooq is not asked
ResolvePrimary ==
    /\ quote_pc = "idle"
    /\ ~stooq_is_called(SymbolType(symbol), yf_hist)
    /\ quote' = get_market_quote(SymbolType(symbol), yf_hist, NoResponse)
    /\ quote_pc' = pc_after(get_market_quote_outcome(SymbolType(symbol), yf_hist, NoResponse))
    /\ UNCHANGED <<symbol, yf_hist, stooq_resp, stooq_called, pulse_in, pulse_out, pulse_pc>>
    /\ UNCHANGED <<decisionVars, feedVars, webVars, now, reqVars, connVars, netVars>>

\* the try body raised for an index: Stooq is asked
ResolveStooq ==
    /\ quote_pc = "idle"
    /\ stooq_is_called(SymbolType(symbol), yf_hist)
    /\ \E resp \in StooqResponses :
          /\ stooq_resp' = Some(resp)
          /\ quote' = get_market_quote(SymbolType(symbol), yf_hist, resp)
          /\ quote_pc' = pc_after(get_market_quote_outcome(SymbolType(symbol), yf_hist, resp))
    /\ stooq_called' = TRUE
    /\ UNCHANGED <<symbol, yf_hist, pulse_in, pulse_out, pulse_pc>>
    /\ UNCHANGED <<decisionVars, feedVars, webVars, now, reqVars, connVars, netVars>>

\* starkhub.py: stooq_quote(sym) for the symbol (Stooq is its only provider)
TuiStooqQuote ==
    /\ quote_pc = "idle"
    /\ yf_hist.kind = "raise"
    /\ \E resp \in StooqResponses :
          /\ stooq_resp' = Some(resp)
          /\ quote' = stooq_quote_outcome(resp).value
          /\ quote_pc' = "tui_" \o pc_after(stooq_quote_outcome(resp))
    /\ stooq_called' = TRUE
    /\ UNCHANGED <<symbol, yf_hist, pulse_in, pulse_out, pulse_pc>>
    /\ UNCHANGED <<decisionVars, feedVars, webVars, now, reqVars, connVars, netVars>>

QuoteNext == ResolvePrimary \/ ResolveStooq \/ TuiStooqQuote

SpecQuote == QuoteInit /\ [][QuoteNext]_vars

-----------------------------------------------------------------------------
(* Claims about the quote resolver *)

\* C3: in get_market_quote, when the primary provider returns a history of 0
\* closes without raising, the provider counts as failed and, for instrument
\* type index, the secondary (Stooq) provider is tried next.
C3_EmptyHistoryFallsThrough ==
    ( /\ quote_pc = "returned"
      /\ yf_hist.kind = "ok"
      /\ Len(yf_hist.closes) = 0
      /\ SymbolType(symbol) = "index" )
    => stooq_called

\* the primary provider gave nothing usable: it raised or timed out, its
\* history is empty, or a close the resolver reads cannot be converted
PrimaryFailed(hist) ==
    \/ hist.kind = "raise"
    \/ Len(hist.closes) = 0
    \/ \E i \in 1..Len(hist.closes) : i >= Len(hist.closes) - 1 /\ hist.closes[i] = None

\* Stooq gave nothing usable: the request raised or timed out, the body has
\* fewer than 3 lines, or one of the last two rows is short or has a close
\* that cannot be converted
StooqFailed(resp) ==
    \/ resp.kind = "raise"
    \/ Len(resp.lines) < 3
    \/ \E i \in 1..Len(resp.lines) :
           /\ i >= Len(resp.lines) - 1
           /\ (Len(resp.lines[i]) < 5 \/ resp.lines[i][5] = None)

\* C11: no exception leaves get_market_quote (app.py) or stooq_quote
\* (starkhub.py), whatever the providers do; and when the primary provider
\* fails and Stooq, if it was asked, fails too, the value returned is None
\* (the (null, null) entry of the pulse).
C11_ResolverNeverRaises ==
    /\ quote_pc \notin {"raised", "tui_raised"}
    /\ ( /\ quote_pc = "returned"
         /\ PrimaryFailed(yf_hist)
         /\ stooq_resp # None => StooqFailed(stooq_resp[1]) ) => quote = None
    /\ (quote_pc = "tui_returned" /\ StooqFailed(stooq_resp[1])) => quote = None

\* a call where a close of the primary provider could not be converted and
\* the Stooq rows could not be converted either
C11_Witness ==
    /\ quote_pc = "returned"
    /\ yf_hist.kind = "ok"
    /\ PrimaryFailed(yf_hist)
    /\ stooq_called
    /\ stooq_resp[1].kind = "ok"
    /\ stooq_body(stooq_resp[1]).kind = "raise"
    /\ quote = None

\* the Stooq body has fewer than 2 history rows under its header line
\* (the code asks for len(lines) >= 3); a provider that was not asked
\* delivered no row
StooqShort == stooq_resp # None => (stooq_resp[1].kind = "ok" /\ Len(stooq_resp[1].lines) < 3)

\* C12: when the primary provider returns fewer than 2 closes and the
\* secondary provider returns fewer than 2 history rows, get_market_quote
\* returns None (the (null, null) quote).
C12_FewerThanTwoIsNull ==
    ( /\ quote_pc = "returned"
      /\ yf_hist.kind = "ok"
      /\ Len(yf_hist.closes) < 2
      /\ StooqShort ) => quote = None

\* C12, as the code has it: the result is None when the primary provider
\* yields no close at all (it raises or returns 0 closes) and Stooq, if asked,
\* returns fewer than 2 history rows; one convertible close from the primary
\* provider is returned as (close, 0.0).
C12_NoCloseIsNull ==
    /\ ( /\ quote_pc = "returned"
         /\ (yf_hist.kind = "raise" \/ Len(yf_hist.closes) = 0)
         /\ StooqShort ) => quote = None
    /\ ( /\ quote_pc = "returned"
         /\ yf_hist.kind = "ok"
         /\ Len(yf_hist.closes) = 1
         /\ yf_hist.closes[1] # None ) => quote = Some(<<yf_hist.closes[1][1], 0>>)

\* the primary provider raised and Stooq answered with a header and one row
C12_Witness ==
    /\ quote_pc = "returned"
    /\ yf_hist.kind = "raise"
    /\ stooq_called
    /\ stooq_resp[1].kind = "ok"
    /\ Len(stooq_resp[1].lines) = 2
    /\ Len(stooq_resp[1].lines[2]) >= 5
    /\ stooq_resp[1].lines[2][5] # None
    /\ quote = None

\* pct is (last - prev) / prev * 100 in hundredths of a percent, rounded
\* down; 0 when prev = 0
IsPctOf(pct, last, prev) ==
    IF prev = 0 THEN pct = 0
    ELSE /\ pct * prev <= (last - prev) * 10000
         /\ (last - prev) * 10000 < (pct + 1) * prev

\* the closes of the primary provider, when it answered and the closes the
\* resolver reads are numbers
PrimaryCloses ==
    IF yf_hist.kind = "ok" /\ ~PrimaryFailed(yf_hist)
    THEN [i \in 1..Len(yf_hist.closes) |->
             IF yf_hist.closes[i] = None THEN 0 ELSE yf_hist.closes[i][1]]
    ELSE <<>>

\* C13: with at least 2 closes from the primary provider the quote is
\* (last, (last - prev) / prev * 100), the change being 0 when prev = 0; with
\* exactly 1 close it is (close, 0.0); in both cases Stooq is not asked.
C13_PrimaryClosesGiveQuote ==
    (quote_pc = "returned" /\ Len(PrimaryCloses) >= 1) =>
        LET n == Len(PrimaryCloses) IN
        /\ ~stooq_called
        /\ stooq_resp = None
        /\ quote # None
        /\ quote[1][1] = PrimaryCloses[n]
        /\ n >= 2 => IsPctOf(quote[1][2], PrimaryCloses[n], PrimaryCloses[n - 1])
        /\ n = 1 => quote[1][2] = 0

\* two closes, the last one 1 % above the previous one
C13_Witness ==
    /\ quote_pc = "returned"
    /\ Len(PrimaryCloses) = 2
    /\ PrimaryCloses[1] = 10000
    /\ quote = Some(<<10100, 100>>)
    /\ ~stooq_called

\* two closes, the previous one 0
C13_WitnessPrevZero ==
    /\ quote_pc = "returned"
    /\ Len(PrimaryCloses) = 2
    /\ PrimaryCloses[1] = 0
    /\ quote = Some(<<10000, 0>>)

\* one close
C13_WitnessOneClose ==
    /\ quote_pc = "returned"
    /\ PrimaryCloses = <<10000>>
    /\ quote = Some(<<10000, 0>>)
    /\ ~stooq_called

-----------------------------------------------------------------------------
(* fetch_market_pulse (app.py and starkhub.py) *)

\* "if q is None: out.append((label, None, None)) else: out.append((label, q[0], q[1]))"
pulse_entry(label, q) ==
    IF q = None THEN Quote(label, <<None, None>>)
    ELSE Quote(label, <<Some(q[1][1]), Some(q[1][2])>>)

\* a loop that leaves out the symbols whose quote is None
RECURSIVE pulse_loop_skipping(_, _)
pulse_loop_skipping(o, n) ==
    IF n = 0 THEN <<>>
    ELSE LET q == get_market_quote(MARKET_SYMBOLS[n][3], o[n].hist, o[n].resp)
         IN  IF q = None THEN pulse_loop_skipping(o, n - 1)
             ELSE Append(pulse_loop_skipping(o, n - 1), pulse_entry(MARKET_SYMBOLS[n][1], q))

\* app.py: "for label, sym, sym_type in MARKET_SYMBOLS", the first n
\* iterations; o[i] is what the providers do for symbol i
RECURSIVE pulse_loop(_, _)
pulse_loop(o, n) ==
    IF n = 0 THEN <<>>
    ELSE Append(pulse_loop(o, n - 1),
                pulse_entry(MARKET_SYMBOLS[n][1],
                            get_market_quote(MARKET_SYMBOLS[n][3], o[n].hist, o[n].resp)))

\* app.py fetch_market_pulse: an exception leaving get_market_quote would
\* leave the loop and the function
fetch_market_pulse_outcome(o) ==
    IF \E i \in DOMAIN MARKET_SYMBOLS :
          get_market_quote_outcome(MARKET_SYMBOLS[i][3], o[i].hist, o[i].resp).kind = "raise"
    THEN Raised
    ELSE Returned(pulse_loop(o, Len(MARKET_SYMBOLS)))

fetch_market_pulse(o) == fetch_market_pulse_outcome(o).value

\* starkhub.py: "for label, sym in STOOQ_SYMBOLS", the first n iterations
RECURSIVE tui_pulse_loop(_, _)
tui_pulse_loop(o, n) ==
    IF n = 0 THEN <<>>
    ELSE Append(tui_pulse_loop(o, n - 1),
                pulse_entry(STOOQ_SYMBOLS[n][1], stooq_quote_outcome(o[n]).value))

\* starkhub.py fetch_market_pulse
tui_fetch_market_pulse_outcome(o) ==
    IF \E i \in DOMAIN STOOQ_SYMBOLS : stooq_quote_outcome(o[i]).kind = "raise"
    THEN Raised
    ELSE Returned(tui_pulse_loop(o, Len(STOOQ_SYMBOLS)))

tui_fetch_market_pulse(o) == tui_fetch_market_pulse_outcome(o).value

GoodRows == <<CsvRow(10000), CsvRow(10000), CsvRow(10100)>>

BadRows == << <<TextField, TextField, TextField, TextField, TextField>>,
              CsvRow(10000), <<TextField, TextField, TextField, TextField, TextField>> >>

ShortRows == <<CsvRow(10000), CsvRow(10000), <<TextField, Some(10000)>> >>

\* what the two providers do for one symbol during a call of app.py
\* fetch_market_pulse: both fail with an exception; the primary provider gives
\* 2 closes; the primary provider raises and Stooq gives 2 rows
Behaviours ==
    { [hist |-> [kind |-> "raise", closes |-> <<>>], resp |-> [kind |-> "ok", lines |-> BadRows]],
      [hist |-> [kind |-> "ok", closes |-> <<Some(10000), Some(10100)>>], resp |-> NoResponse],
      [hist |-> [kind |-> "raise", closes |-> <<>>], resp |-> [kind |-> "ok", lines |-> GoodRows]] }

\* what Stooq does for one symbol during a call of starkhub.py
\* fetch_market_pulse: 2 rows; a short last row (IndexError inside the try)
TuiBehaviours ==
    { [kind |-> "ok", lines |-> GoodRows],
      [kind |-> "ok", lines |-> ShortRows] }

PulseInit ==
    /\ QuoteQuiet
    /\ DecisionQuiet
    /\ FeedQuiet
    /\ WebQuiet
    /\ ReqQuiet
    /\ ConnQuiet
    /\ NetQuiet
    /\ now = 0

FetchMarketPulse ==
    /\ pulse_pc = "idle"
    /\ \E o \in [DOMAIN MARKET_SYMBOLS -> Behaviours] :
          /\ pulse_in' = List(o)
          /\ pulse_out' = fetch_market_pulse(o)
          /\ pulse_pc' = pc_after(fetch_market_pulse_outcome(o))
    /\ UNCHANGED <<symbol, yf_hist, stooq_resp, stooq_called, quote, quote_pc>>
    /\ UNCHANGED <<decisionVars, feedVars, webVars, now, reqVars, connVars, netVars>>

TuiFetchMarketPulse ==
    /\ pulse_pc = "idle"
    /\ \E o \in [DOMAIN STOOQ_SYMBOLS -> TuiBehaviours] :
          /\ pulse_in' = List(o)
          /\ pulse_out' = tui_fetch_market_pulse(o)
          /\ pulse_pc' = "tui_" \o pc_after(tui_fetch_market_pulse_outcome(o))
    /\ UNCHANGED <<symbol, yf_hist, stooq_resp, stooq_called, quote, quote_pc>>
    /\ UNCHANGED <<decisionVars, feedVars, webVars, now, reqVars, connVars, netVars>>

PulseNext == FetchMarketPulse \/ TuiFetchMarketPulse

SpecPulse == PulseInit /\ [][PulseNext]_vars

-----------------------------------------------------------------------------
(* Claims about fetch_market_pulse *)

\* the labels of the table the call iterates over
PulseLabels ==
    IF pulse_pc = "returned" THEN [i \in DOMAIN MARKET_SYMBOLS |-> MARKET_SYMBOLS[i][1]]
    ELSE [i \in DOMAIN STOOQ_SYMBOLS |-> STOOQ_SYMBOLS[i][1]]

\* symbol i has no quote: every provider asked for it failed
SymbolFails(i) ==
    IF pulse_pc = "returned"
    THEN /\ PrimaryFailed(pulse_in[i].hist)
         /\ (MARKET_SYMBOLS[i][3] = "index" /\ pulse_in[i].hist.kind = "raise")
                => StooqFailed(pulse_in[i].resp)
    ELSE StooqFailed(pulse_in[i])

\* the call of the same function with other provider behaviour
PulseFor(o) ==
    IF pulse_pc = "returned" THEN fetch_market_pulse(o) ELSE tui_fetch_market_pulse(o)

\* provider behaviour with which a symbol fails
FailingBehaviour ==
    IF pulse_pc = "returned"
    THEN [hist |-> [kind |-> "raise", closes |-> <<>>], resp |-> [kind |-> "raise", lines |-> <<>>]]
    ELSE [kind |-> "raise", lines |-> <<>>]

\* the entry of symbol i, from what its own providers do
EntryAlone(i) ==
    IF pulse_pc = "returned"
    THEN pulse_entry(MARKET_SYMBOLS[i][1],
                     get_market_quote(MARKET_SYMBOLS[i][3], pulse_in[i].hist, pulse_in[i].resp))
    ELSE pulse_entry(STOOQ_SYMBOLS[i][1], stooq_quote_outcome(pulse_in[i]).value)

\* C14: fetch_market_pulse (app.py and starkhub.py) returns, never raises,
\* and its list has one entry per configured symbol, in configuration order,
\* whichever symbols fail; a failing symbol has (label, None, None) at its
\* position; every entry is the quote of its own symbol, and making one
\* symbol fail changes no other entry of the list.
C14_OneEntryPerSymbolInOrder ==
    /\ pulse_pc \in {"idle", "returned", "tui_returned"}
    /\ pulse_pc # "idle" =>
          /\ Len(pulse_out) = Len(PulseLabels)
          /\ \A i \in 1..Len(pulse_out) :
                /\ pulse_out[i].label = PulseLabels[i]
                /\ SymbolFails(i) => (pulse_out[i].value = None /\ pulse_out[i].pct = None)
                /\ pulse_out[i] = EntryAlone(i)
          /\ \A j \in 1..Len(pulse_in) :
                LET other == PulseFor([pulse_in EXCEPT ![j] = FailingBehaviour])
                IN  other = [pulse_out EXCEPT ![j] = Quote(PulseLabels[j], <<None, None>>)]

\* a call where the first and the last symbol fail and the second does not
C14_Witness ==
    /\ pulse_pc = "returned"
    /\ SymbolFails(1)
    /\ ~SymbolFails(2)
    /\ SymbolFails(9)
    /\ pulse_out[1] = Quote("S&P 500", <<None, None>>)
    /\ pulse_out[2] = Quote("NASDAQ", <<Some(10100), Some(100)>>)
    /\ pulse_out[9] = Quote("10Y Treasury", <<None, None>>)

\* the same for starkhub.py
C14_WitnessTui ==
    /\ pulse_pc = "tui_returned"
    /\ SymbolFails(1)
    /\ ~SymbolFails(2)
    /\ pulse_out[1] = Quote("S&P 500", <<None, None>>)
    /\ pulse_out[2] = Quote("NASDAQ 100", <<Some(10100), Some(100)>>)

-----------------------------------------------------------------------------
(* FeedAggregator: fetch_headlines *)

\* feed.entries[:40]
per_source_limit == 40

\* (prioritized + others)[:60]
total_limit == 60

\* three of the configured sources, in configuration order: one whose name
\* holds a relevance keyword ("market") between two whose names hold none
RSS_SOURCES ==
    << <<"F", "T", " ", "C", "o", "m", "p", "a", "n", "i", "e", "s">>,
       <<"A", "F", "R", " ", "M", "a", "r", "k", "e", "t", "s">>,
       <<"W", "S", "J", " ", "W", "o", "r", "l", "d">> >>

aus_usa_keywords ==
    { <<"a", "u", "s", "t", "r", "a", "l", "i", "a">>,
      <<"a", "u", "s", "t", "r", "a", "l", "i", "a", "n">>,
      <<"s", "y", "d", "n", "e", "y">>,
      <<"m", "e", "l", "b", "o", "u", "r", "n", "e">>,
      <<"r", "b", "a">>,
      <<"a", "s", "x">>,
      <<"a", "u", "d">>,
      <<"u", "s", "a">>,
      <<"u", "s">>,
      <<"u", "n", "i", "t", "e", "d", " ", "s", "t", "a", "t", "e", "s">>,
      <<"f", "e", "d", "e", "r", "a", "l", " ", "r", "e", "s", "e", "r", "v", "e">>,
      <<"f", "e", "d">>,
      <<"w", "a", "l", "l", " ", "s", "t", "r", "e", "e", "t">>,
      <<"n", "a", "s", "d", "a", "q">>,
      <<"s", "&", "p">>,
      <<"d", "o", "w">>,
      <<"n", "e", "w", " ", "y", "o", "r", "k">>,
      <<"w", "a", "s", "h", "i", "n", "g", "t", "o", "n">>,
      <<"t", "r", "e", "a", "s", "u", "r", "y">>,
      <<"d", "o", "l", "l", "a", "r">>,
      <<"m", "a", "r", "k", "e", "t">>,
      <<"e", "c", "o", "n", "o", "m", "y">>,
      <<"i", "n", "f", "l", "a", "t", "i", "o", "n">>,
      <<"r", "a", "t", "e", "s">>,
      <<"i", "n", "t", "e", "r", "e", "s", "t">>,
      <<"g", "d", "p">>,
      <<"e", "m", "p", "l", "o", "y", "m", "e", "n", "t">> }

LowerOf ==
    ("A" :> "a") @@ ("B" :> "b") @@ ("C" :> "c") @@ ("D" :> "d") @@ ("E" :> "e") @@ ("F" :> "f") @@
    ("G" :> "g") @@ ("H" :> "h") @@ ("I" :> "i") @@ ("J" :> "j") @@ ("K" :> "k") @@ ("L" :> "l") @@
    ("M" :> "m") @@ ("N" :> "n") @@ ("O" :> "o") @@ ("P" :> "p") @@ ("Q" :> "q") @@ ("R" :> "r") @@
    ("S" :> "s") @@ ("T" :> "t") @@ ("U" :> "u") @@ ("V" :> "v") @@ ("W" :> "w") @@ ("X" :> "x") @@
    ("Y" :> "y") @@ ("Z" :> "z")

SetMin(S) == CHOOSE x \in S : \A y \in S : x <= y

SetMax(S) == CHOOSE x \in S : \A y \in S : y <= x

lower_char(c) == IF c \in DOMAIN LowerOf THEN LowerOf[c] ELSE c

\* str.lower()
lower(t) == List([i \in 1..Len(t) |-> lower_char(t[i])])

\* str.strip()
strip(t) ==
    LET ns == {i \in 1..Len(t) : t[i] # " "}
    IN  IF ns = {} THEN <<>> ELSE SubSeq(t, SetMin(ns), SetMax(ns))

\* "kw in text"
contains(text, kw) ==
    \E i \in 1..(Len(text) - Len(kw) + 1) : SubSeq(text, i, i + Len(kw) - 1) = kw

Headline(source, title, link, published_ts) ==
    [source |-> source, title |-> title, link |-> link, published_ts |-> published_ts]

\* hashlib.sha256(s).hexdigest()[:16]: a tag on the hashed text (two texts get
\* the same key iff they are the same text; collisions of the 64-bit prefix
\* are outside the model)
_hash_key(s) == <<"sha256">> \o s

\* k = _hash_key(h.title.lower() + "|" + h.link.lower())
dedup_key(h) == _hash_key(lower(h.title) \o <<"|">> \o lower(h.link))

\* published_parsed, else updated_parsed, else the clock
published_ts_of(e, clock) ==
    IF e.published_parsed # None THEN e.published_parsed[1]
    ELSE IF e.updated_parsed # None THEN e.updated_parsed[1]
    ELSE clock

entry_ok(e) == strip(e.title) # <<>> /\ strip(e.link) # <<>>

\* the loop without the [:40] slice
source_items_uncapped(name, entries, clock) ==
    LET bad == {i \in 1..Len(entries) : entries[i].raises}
        upto == IF bad = {} THEN Len(entries) ELSE SetMin(bad) - 1
        kept == SelectSeq(SubSeq(entries, 1, upto), entry_ok)
    IN  List([i \in 1..Len(kept) |->
            Headline(name, strip(kept[i].title), strip(kept[i].link),
                     published_ts_of(kept[i], clock))])

\* the loop over feed.entries[:40] of one source: the items appended before
\* the loop ends or an entry raises (items already appended stay in the pool)
source_items(name, entries, clock) ==
    LET capped == Take(entries, per_source_limit)
        bad == {i \in 1..Len(capped) : capped[i].raises}
        upto == IF bad = {} THEN Len(capped) ELSE SetMin(bad) - 1
        kept == SelectSeq(SubSeq(capped, 1, upto), entry_ok)
    IN  List([i \in 1..Len(kept) |->
            Headline(name, strip(kept[i].title), strip(kept[i].link),
                     published_ts_of(kept[i], clock))])

\* the items pooled from sources 1..k
RECURSIVE pool_upto(_, _, _, _)
pool_upto(fd, failing, clock, k) ==
    IF k = 0 THEN <<>>
    ELSE pool_upto(fd, failing, clock, k - 1) \o
         (IF k \in failing THEN <<>> ELSE source_items(RSS_SOURCES[k], fd[k], clock))

\* a pool where one failing source empties the whole call
pool_aborting(fd, failing, clock) ==
    IF failing = {} THEN pool_upto(fd, failing, clock, Len(RSS_SOURCES)) ELSE <<>>

pool(fd, failing, clock) == pool_upto(fd, failing, clock, Len(RSS_SOURCES))

\* sorted(items, key=lambda x: x.published_ts, reverse=True): a stable sort,
\* so item i lands after every more recent item and after every equally recent
\* item that precedes it in the pool
sort_rank(s, i) ==
    Cardinality({j \in 1..Len(s) :
        \/ s[j].published_ts > s[i].published_ts
        \/ (s[j].published_ts = s[i].published_ts /\ j < i)}) + 1

sort_desc(s) ==
    LET rank == List([i \in 1..Len(s) |-> sort_rank(s, i)])
    IN  List([r \in 1..Len(s) |-> s[CHOOSE i \in 1..Len(s) : rank[i] = r]])

\* the dedup loop over the sorted list: h is appended unless its key is already
\* in seen, that is unless an earlier element of the list has the same key
IsFirst(m) == m.first

\* a dedup loop that never skips
dedup_nothing(s) == s

dedup(s) ==
    LET keys == List([i \in 1..Len(s) |-> dedup_key(s[i])])
        marked == List([i \in 1..Len(s) |->
                      [h |-> s[i], first |-> \A j \in 1..(i - 1) : keys[j] # keys[i]]])
        kept == SelectSeq(marked, IsFirst)
    IN  List([i \in 1..Len(kept) |-> kept[i].h])

is_relevant(h) ==
    LET title_lower == lower(h.title)
        source_lower == lower(h.source)
    IN  \E keyword \in aus_usa_keywords :
            contains(title_lower, keyword) \/ contains(source_lower, keyword)

\* the partition loop: is_relevant is computed once per headline
IsPrioritized(m) == m.is_relevant

IsOther(m) == ~m.is_relevant

\* (others + prioritized)[:60]
prioritize_swapped(dd) ==
    LET marked == List([i \in 1..Len(dd) |-> [h |-> dd[i], is_relevant |-> is_relevant(dd[i])]])
        ordered == SelectSeq(marked, IsOther) \o SelectSeq(marked, IsPrioritized)
    IN  Take(List([i \in 1..Len(ordered) |-> ordered[i].h]), total_limit)

\* (prioritized + others)[:60]
prioritize(dd) ==
    LET marked == List([i \in 1..Len(dd) |-> [h |-> dd[i], is_relevant |-> is_relevant(dd[i])]])
        ordered == SelectSeq(marked, IsPrioritized) \o SelectSeq(marked, IsOther)
    IN  Take(List([i \in 1..Len(ordered) |-> ordered[i].h]), total_limit)

fetch_headlines(fd, failing, clock) == prioritize(dedup(sort_desc(pool(fd, failing, clock))))

-----------------------------------------------------------------------------
(* Specification of the aggregator: the sources publish entries, some of
   them start failing, and fetch_headlines is called *)

MaxPicks == 2

MaxBulks == 2

BulkSize == 41

MaxParseFailures == 1

Entry(title, link, published_parsed, updated_parsed, raises) ==
    [title |-> title, link |-> link, published_parsed |-> published_parsed,
     updated_parsed |-> updated_parsed, raises |-> raises]

\* entries a source may publish one at a time
EntryChoices ==
    { Entry(<<"a">>, <<"x">>, Some(100), None, FALSE),
      Entry(<<"A">>, <<"X", " ">>, Some(50), None, FALSE),       \* same key, older
      Entry(<<"a">>, <<"x">>, None, None, FALSE),                \* same key, dated by the clock
      Entry(<<"a", "|", "b">>, <<"c">>, Some(100), None, FALSE),
      Entry(<<"a">>, <<"b", "|", "c">>, Some(50), None, FALSE),  \* "a|b"+"|"+"c" = "a"+"|"+"b|c"
      Entry(<<"U", "S">>, <<"y">>, None, Some(70), FALSE),       \* title holds a keyword
      Entry(<<" ">>, <<"x">>, Some(100), None, FALSE),           \* blank title: skipped
      Entry(<<"a">>, <<"x">>, Some(100), None, TRUE) }           \* processing it raises

Digits == <<"0", "1", "2", "3", "4", "5", "6", "7", "8", "9">>

\* the k-th entry of the batch of source s, newest first. Entry 2 repeats
\* entry 1 in another case, entry 3 is the same story in every source (the
\* later source carries the more recent copy), all other titles are unique.
BulkEntry(s, k) ==
    IF k = 2
    THEN Entry(<<"N", Digits[s + 1], "0", "1">>, <<"H">>, Some(1000 - k), None, FALSE)
    ELSE IF k = 3
    THEN Entry(<<"n", "x", "0", "3">>, <<"h">>, Some(990 + s), None, FALSE)
    ELSE Entry(<<"n", Digits[s + 1], Digits[(k \div 10) + 1], Digits[(k % 10) + 1]>>,
               <<"h">>, Some(1000 - k), None, FALSE)

FeedInit ==
    /\ feeds = [s \in DOMAIN RSS_SOURCES |-> <<>>]
    /\ parse_raises = {}
    /\ items = <<>>
    /\ deduped = <<>>
    /\ headlines_raw = <<>>
    /\ feed_pc = "feeds"
    /\ bulked = {}
    /\ now = 200
    /\ DecisionQuiet
    /\ QuoteQuiet
    /\ WebQuiet
    /\ ReqQuiet
    /\ ConnQuiet
    /\ NetQuiet

PickedCount ==
    LET RECURSIVE total(_)
        total(k) == IF k = 0 THEN 0 ELSE total(k - 1) + Len(feeds[k])
    IN  total(Len(RSS_SOURCES)) - BulkSize * Cardinality(bulked)

\* a source publishes one entry (batches go to feeds that are still empty)
Publish(s, e) ==
    /\ feed_pc = "feeds"
    /\ parse_raises = {}
    /\ bulked = {}
    /\ PickedCount < MaxPicks
    /\ feeds' = [feeds EXCEPT ![s] = Append(@, e)]
    /\ UNCHANGED <<parse_raises, items, deduped, headlines_raw, feed_pc, bulked, now>>
    /\ UNCHANGED <<decisionVars, quoteVars, webVars, reqVars, connVars, netVars>>

\* a source publishes a batch of BulkSize entries
PublishBulk(s) ==
    /\ feed_pc = "feeds"
    /\ parse_raises = {}
    /\ PickedCount = 0
    /\ s \notin bulked
    /\ Cardinality(bulked) < MaxBulks
    /\ feeds' = [feeds EXCEPT ![s] = @ \o List([k \in 1..BulkSize |-> BulkEntry(s, k)])]
    /\ bulked' = bulked \cup {s}
    /\ UNCHANGED <<parse_raises, items, deduped, headlines_raw, feed_pc, now>>
    /\ UNCHANGED <<decisionVars, quoteVars, webVars, reqVars, connVars, netVars>>

\* feedparser.parse(url) starts raising for a source
FailParse(s) ==
    /\ feed_pc = "feeds"
    /\ s \notin parse_raises
    /\ Cardinality(parse_raises) < MaxParseFailures
    /\ parse_raises' = parse_raises \cup {s}
    /\ UNCHANGED <<feeds, items, deduped, headlines_raw, feed_pc, bulked, now>>
    /\ UNCHANGED <<decisionVars, quoteVars, webVars, reqVars, connVars, netVars>>

\* one call of fetch_headlines()
FetchHeadlines ==
    /\ feed_pc = "feeds"
    /\ LET pooled == pool(feeds, parse_raises, now)
           dd == dedup(sort_desc(pooled))
       IN  /\ items' = pooled
           /\ deduped' = dd
           /\ headlines_raw' = prioritize(dd)
    /\ feed_pc' = "fetched"
    /\ UNCHANGED <<feeds, parse_raises, bulked, now>>
    /\ UNCHANGED <<decisionVars, quoteVars, webVars, reqVars, connVars, netVars>>

FeedNext ==
    \/ \E s \in DOMAIN RSS_SOURCES, e \in EntryChoices : Publish(s, e)
    \/ \E s \in DOMAIN RSS_SOURCES : PublishBulk(s)
    \/ \E s \in DOMAIN RSS_SOURCES : FailParse(s)
    \/ FetchHeadlines

SpecFeed == FeedInit /\ [][FeedNext]_vars

-----------------------------------------------------------------------------
(* Properties of the aggregator *)

fetched == feed_pc = "fetched"

\* the source fails somewhere in its try block: feedparser.parse raises, or
\* one of the entries the loop reaches raises
SourceFails(s) ==
    \/ s \in parse_raises
    \/ \E i \in 1..Min(Len(feeds[s]), per_source_limit) : feeds[s][i].raises

\* the same feeds with source s processed without any exception
HealedFeeds(s) ==
    [feeds EXCEPT ![s] = List([i \in 1..Len(feeds[s]) |-> [feeds[s][i] EXCEPT !.raises = FALSE]])]

CountFrom(list, s) == Cardinality({i \in 1..Len(list) : list[i].source = RSS_SOURCES[s]})

\* the case-folded (title, link) pair
Folded(h) == <<lower(h.title), lower(h.link)>>

DistinctKeys(list) == Cardinality({dedup_key(list[i]) : i \in 1..Len(list)})

\* C5: after a call, a source that failed at any point (parse raising, or its
\* k-th entry raising) has no headline in the pool, and every source that did
\* not fail has all its valid entries (up to the cap) in the pool.
C5_FailedSourceContributesNothing ==
    fetched =>
        \A s \in DOMAIN RSS_SOURCES :
            IF SourceFails(s)
            THEN CountFrom(items, s) = 0
            ELSE CountFrom(items, s) =
                     Len(SelectSeq(Take(feeds[s], per_source_limit), entry_ok))

\* C6 (as stated): for every failing source s, each other source has as many
\* headlines in the returned list as it has in the list returned by the same
\* call with s succeeding.
C6_ResultCountsUnchanged ==
    fetched =>
        \A s \in DOMAIN RSS_SOURCES :
            SourceFails(s) =>
                LET healthy == fetch_headlines(HealedFeeds(s), parse_raises \ {s}, now)
                IN  \A o \in DOMAIN RSS_SOURCES \ {s} :
                        CountFrom(headlines_raw, o) = CountFrom(healthy, o)

\* C6 (amended): for every failing source s, each other source has as many
\* headlines in the pool (before deduplication, prioritization and truncation)
\* as it has in the pool of the same call with s succeeding.
C6_PoolCountsUnchanged ==
    fetched =>
        \A s \in DOMAIN RSS_SOURCES :
            SourceFails(s) =>
                LET healthy == pool(HealedFeeds(s), parse_raises \ {s}, now)
                IN  \A o \in DOMAIN RSS_SOURCES \ {s} :
                        CountFrom(items, o) = CountFrom(healthy, o)

\* a call where a source failed that would have contributed, next to another
\* source that contributes
C6_Witness ==
    /\ fetched
    /\ \E s \in DOMAIN RSS_SOURCES :
        /\ SourceFails(s)
        /\ CountFrom(pool(HealedFeeds(s), parse_raises \ {s}, now), s) > 0
        /\ \E o \in DOMAIN RSS_SOURCES \ {s} : CountFrom(items, o) > 0

\* C7: for every pooled headline, exactly one headline with the same
\* case-folded (title, link) pair survives deduplication, it carries the
\* largest published_ts of the pooled headlines with that pair (so headlines
\* with different pairs are never merged into one survivor).
C7_OneSurvivorPerFoldedPair ==
    fetched =>
        LET F == List([i \in 1..Len(items) |-> Folded(items[i])])
            D == List([d \in 1..Len(deduped) |-> Folded(deduped[d])])
        IN  \A i \in 1..Len(items) :
                LET survivors == {d \in 1..Len(deduped) : D[d] = F[i]}
                IN  /\ Cardinality(survivors) = 1
                    /\ \A d \in survivors, j \in 1..Len(items) :
                           F[j] = F[i] => deduped[d].published_ts >= items[j].published_ts

\* C8 (as stated): the returned list is as long as the number of distinct
\* dedup keys in the pool.
C8_LengthIsDistinctKeys ==
    fetched => Len(headlines_raw) = DistinctKeys(items)

\* C8 (amended): the returned list is as long as the number of distinct dedup
\* keys in the pool, or total_limit when there are more keys than that.
C8_LengthIsDistinctKeysUpToLimit ==
    fetched => Len(headlines_raw) = Min(total_limit, DistinctKeys(items))

\* a call that merged duplicates and still had more keys than the limit
C8_Witness ==
    /\ fetched
    /\ DistinctKeys(items) < Len(items)
    /\ DistinctKeys(items) > total_limit
    /\ Len(headlines_raw) = total_limit

\* position of a returned headline in the deduplicated list
PosInDeduped(h) == CHOOSE d \in 1..Len(deduped) : deduped[d] = h

\* C9: the returned list holds headlines of the deduplicated list only (all of
\* them when they fit the limit), the deduplicated list is in descending
\* published_ts order, no headline without a relevance keyword in title or
\* source precedes one with a keyword, and two returned headlines of the same
\* bucket stand in the order they have in the deduplicated list.
C9_StableTwoBucketPartition ==
    fetched =>
        /\ \A i \in 1..Len(headlines_raw) : \E d \in 1..Len(deduped) : deduped[d] = headlines_raw[i]
        /\ Len(deduped) <= total_limit => Len(headlines_raw) = Len(deduped)
        /\ \A d \in 1..(Len(deduped) - 1) : deduped[d].published_ts >= deduped[d + 1].published_ts
        /\ LET rel == List([i \in 1..Len(headlines_raw) |-> is_relevant(headlines_raw[i])])
               pos == List([i \in 1..Len(headlines_raw) |-> PosInDeduped(headlines_raw[i])])
           IN  \A i, j \in 1..Len(headlines_raw) :
                   i < j => /\ rel[i] \/ ~rel[j]
                            /\ rel[i] = rel[j] => pos[i] < pos[j]

\* a call whose deduplicated list has a headline without keyword ahead of one
\* with a keyword, and two headlines in one bucket
C9_Witness ==
    /\ fetched
    /\ \E i, j \in 1..Len(deduped) :
           i < j /\ ~is_relevant(deduped[i]) /\ is_relevant(deduped[j])
    /\ \E i, j \in 1..Len(headlines_raw) :
           i < j /\ is_relevant(headlines_raw[i]) = is_relevant(headlines_raw[j])

\* C10: the returned list has at most total_limit headlines, every pooled
\* headline of a source comes from one of its first per_source_limit entries
\* (so at most per_source_limit per source), and every deduplicated headline
\* that is not returned stands, in the prioritized-then-other order, after
\* every headline that is returned.
C10_LimitsAndTailTruncation ==
    fetched =>
        /\ Len(headlines_raw) <= total_limit
        /\ \A s \in DOMAIN RSS_SOURCES :
            /\ CountFrom(items, s) <= per_source_limit
            /\ \A i \in 1..Len(items) :
                   items[i].source = RSS_SOURCES[s] =>
                       \E k \in 1..Min(Len(feeds[s]), per_source_limit) :
                           strip(feeds[s][k].title) = items[i].title
        /\ LET rel == List([d \in 1..Len(deduped) |-> is_relevant(deduped[d])])
               kept == {d \in 1..Len(deduped) :
                           \E i \in 1..Len(headlines_raw) : headlines_raw[i] = deduped[d]}
           IN  \A x \in (1..Len(deduped)) \ kept, y \in kept :
                   \/ rel[y] /\ ~rel[x]
                   \/ rel[y] = rel[x] /\ y < x

\* a call on a feed longer than the per-source cap whose deduplicated list is
\* longer than the total limit
C10_Witness ==
    /\ fetched
    /\ Len(deduped) > total_limit
    /\ Len(headlines_raw) = total_limit
    /\ \E s \in DOMAIN RSS_SOURCES :
           Len(feeds[s]) > per_source_limit /\ CountFrom(items, s) = per_source_limit

-----------------------------------------------------------------------------
(* Text conversions used by the cache call sites *)

\* str(n), n >= 0
RECURSIVE digits_of(_)
digits_of(n) ==
    IF n < 10 THEN <<Digits[n + 1]>>
    ELSE digits_of(n \div 10) \o <<Digits[(n % 10) + 1]>>

\* f"{n}" for an int
str_int(n) == IF n < 0 THEN <<"-">> \o digits_of(-n) ELSE digits_of(n)

IsDigits(t) == \A i \in 1..Len(t) : \E d \in 1..10 : Digits[d] = t[i]

DigitValue(c) == (CHOOSE d \in 1..10 : Digits[d] = c) - 1

RECURSIVE number_of(_)
number_of(t) ==
    IF t = <<>> THEN 0
    ELSE 10 * number_of(SubSeq(t, 1, Len(t) - 1)) + DigitValue(t[Len(t)])

\* int(text): <<n>>, or <<>> when int() raises ValueError
int_of(text) ==
    LET t == strip(text)
        signed == t # <<>> /\ (t[1] = "-" \/ t[1] = "+")
        body == IF signed THEN Tail(t) ELSE t
    IN  IF body # <<>> /\ IsDigits(body)
        THEN Some(IF signed /\ t[1] = "-" THEN -number_of(body) ELSE number_of(body))
        ELSE None

\* f"{x}" for a float (x in hundredths): "25.0", "25.5", "-1.25"
format_float(x) ==
    LET a == Abs(x)
        frac == a % 100
    IN  (IF x < 0 THEN <<"-">> ELSE <<>>) \o digits_of(a \div 100) \o <<".">> \o
        (IF frac % 10 = 0 THEN <<Digits[(frac \div 10) + 1]>>
         ELSE <<Digits[(frac \div 10) + 1], Digits[(frac % 10) + 1]>>)

\* float(text) in hundredths: <<x>>, or <<>> when float() raises ValueError
\* (decimal notation; digits past the second decimal are below the resolution)
float_of(text) ==
    LET t == strip(text)
        signed == t # <<>> /\ (t[1] = "-" \/ t[1] = "+")
        body == IF signed THEN Tail(t) ELSE t
        dots == {i \in 1..Len(body) : body[i] = "."}
        whole == IF dots = {} THEN body ELSE SubSeq(body, 1, SetMin(dots) - 1)
        frac == IF dots = {} THEN <<>> ELSE SubSeq(body, SetMin(dots) + 1, Len(body))
        cents == number_of(Take(frac \o <<"0", "0">>, 2))
    IN  IF IsDigits(whole) /\ IsDigits(frac) /\ (whole # <<>> \/ frac # <<>>)
        THEN Some((IF signed /\ t[1] = "-" THEN -1 ELSE 1) * (100 * number_of(whole) + cents))
        ELSE None

\* text.split(sep, maxsplit)
split(text, sep, maxsplit) ==
    LET seps == {i \in 1..Len(text) : text[i] = sep}
        cuts == {i \in seps : Cardinality({j \in seps : j < i}) < maxsplit}
        n == Cardinality(cuts)
        cut(k) == IF k = 0 THEN 0
                  ELSE IF k = n + 1 THEN Len(text) + 1
                  ELSE CHOOSE i \in cuts : Cardinality({j \in cuts : j < i}) = k - 1
    IN  List([k \in 1..(n + 1) |-> SubSeq(text, cut(k - 1) + 1, cut(k) - 1)])

\* text.splitlines(): no line for the empty text or after a final line break
splitlines(text) ==
    LET parts == split(text, "\n", Len(text))
    IN  IF parts[Len(parts)] = <<>> THEN SubSeq(parts, 1, Len(parts) - 1) ELSE parts

\* sep.join(parts)
RECURSIVE join(_, _)
join(sep, parts) ==
    IF parts = <<>> THEN <<>>
    ELSE IF Len(parts) = 1 THEN parts[1]
    ELSE join(sep, SubSeq(parts, 1, Len(parts) - 1)) \o <<sep>> \o parts[Len(parts)]

\* the labels of MARKET_SYMBOLS and STOOQ_SYMBOLS with their spelling
LabelTable ==
    << <<"S&P 500", <<"S", "&", "P", " ", "5", "0", "0">> >>,
       <<"NASDAQ", <<"N", "A", "S", "D", "A", "Q">> >>,
       <<"NASDAQ 100", <<"N", "A", "S", "D", "A", "Q", " ", "1", "0", "0">> >>,
       <<"Dow Jones", <<"D", "o", "w", " ", "J", "o", "n", "e", "s">> >>,
       <<"VIX", <<"V", "I", "X">> >>,
       <<"ASX 200", <<"A", "S", "X", " ", "2", "0", "0">> >>,
       <<"AUD/USD", <<"A", "U", "D", "/", "U", "S", "D">> >>,
       <<"Gold", <<"G", "o", "l", "d">> >>,
       <<"Oil (WTI)", <<"O", "i", "l", " ", "(", "W", "T", "I", ")">> >>,
       <<"10Y Treasury", <<"1", "0", "Y", " ", "T", "r", "e", "a", "s", "u", "r", "y">> >> >>

text_of_label(l) == LabelTable[CHOOSE i \in DOMAIN LabelTable : LabelTable[i][1] = l][2]

\* the label a text spells (a text that spells no configured label stays as it is)
label_of_text(t) ==
    IF \E i \in DOMAIN LabelTable : LabelTable[i][2] = t
    THEN LabelTable[CHOOSE i \in DOMAIN LabelTable : LabelTable[i][2] = t][1]
    ELSE t

NA == <<"N", "A">>

IsSome(x) == x # None

\* f"{h.published_ts}|{h.source}|{h.title}|{h.link}"
headline_line(h) ==
    str_int(h.published_ts) \o <<"|">> \o h.source \o <<"|">> \o h.title \o <<"|">> \o h.link

\* "\n".join([... for h in headlines_raw])
serialize_headlines(hl) == join("\n", List([i \in 1..Len(hl) |-> headline_line(hl[i])]))

\* the try block over one cached line: <<dict>>, or <<>> when it raises
\* (the unpacking of line.split("|", 3) into four names, or int(ts))
parse_headline_line(line) ==
    LET parts == split(line, "|", 3)
    IN  IF Len(parts) # 4 THEN None
        ELSE IF int_of(parts[1]) = None THEN None
        ELSE Some(Headline(parts[2], parts[3], parts[4], int_of(parts[1])[1]))

\* the loop over h_cache[0].splitlines(): a line that raises is skipped
parse_headlines(text) ==
    LET lines == splitlines(text)
        parsed == List([i \in 1..Len(lines) |-> parse_headline_line(lines[i])])
        good == SelectSeq(parsed, IsSome)
    IN  List([i \in 1..Len(good) |-> good[i][1]])

\* f"{v if v is not None else 'NA'}"
\* "v if v else 'NA'": the test on the truth value, which 0.0 fails
opt_float_text_falsy(v) == IF v # None /\ v[1] # 0 THEN format_float(v[1]) ELSE NA

opt_float_text(v) == IF v # None THEN format_float(v[1]) ELSE NA

\* f"{l}|{v if v is not None else 'NA'}|{p if p is not None else 'NA'}"
pulse_line(q) ==
    text_of_label(q.label) \o <<"|">> \o opt_float_text(q.value) \o <<"|">> \o opt_float_text(q.pct)

serialize_pulse(pr) == join("\n", List([i \in 1..Len(pr) |-> pulse_line(pr[i])]))

\* float(x) if x != "NA" else None
opt_float_raises(t) == t # NA /\ float_of(t) = None

opt_float_of(t) == IF t = NA THEN None ELSE float_of(t)

\* one cached pulse line: <<entry>>, or <<>> when the unpacking of
\* line.split("|", 2) into three names, or float(), raises
parse_pulse_line(line) ==
    LET parts == split(line, "|", 2)
    IN  IF Len(parts) # 3 THEN None
        ELSE IF opt_float_raises(parts[2]) \/ opt_float_raises(parts[3]) THEN None
        ELSE Some(Quote(label_of_text(parts[1]), <<opt_float_of(parts[2]), opt_float_of(parts[3])>>))

parsed_pulse_lines(text) ==
    LET lines == splitlines(text)
    IN  List([i \in 1..Len(lines) |-> parse_pulse_line(lines[i])])

\* api_pulse: the loop with its try/except, a line that raises is skipped
parse_pulse(text) ==
    LET good == SelectSeq(parsed_pulse_lines(text), IsSome)
    IN  List([i \in 1..Len(good) |-> good[i][1]])

\* refresh_all: the loop has no try/except, the first line that raises ends it
parse_pulse_raises(text) ==
    LET parsed == parsed_pulse_lines(text)
    IN  \E i \in 1..Len(parsed) : parsed[i] = None

-----------------------------------------------------------------------------
(* JSON: a value is a tree tagged with its JSON type; the text json.dumps
   writes for a value is the tagged pair <<"json", value>>, which json.loads
   maps back to the value; any other text makes json.loads raise *)

JStr(s) == [type |-> "string", v |-> s]

JList(l) == [type |-> "array", v |-> l]

JObj(o) == [type |-> "object", v |-> o]

json_dumps(value) == <<"json", value>>

\* <<value>>, or <<>> when json.loads raises JSONDecodeError
json_loads(text) == IF Len(text) = 2 /\ text[1] = "json" THEN Some(text[2]) ELSE None

json_strings(l) == JList(List([i \in 1..Len(l) |-> JStr(l[i])]))

json_horizon(h) == JObj([horizon |-> JStr(h.horizon), view |-> JStr(h.view), action |-> JStr(h.action)])

\* the JSON value of the dict generate_fallback_decision returns
decision_json(r) ==
    JObj([regime |-> JStr(r.regime),
          whatChanged |-> json_strings(r.whatChanged),
          winners |-> json_strings(r.winners),
          losers |-> json_strings(r.losers),
          opportunityZones |-> json_strings(r.opportunityZones),
          whatBreaks |-> json_strings(r.whatBreaks),
          timeHorizons |-> JObj([shortTerm |-> json_horizon(r.timeHorizons.shortTerm),
                                 mediumTerm |-> json_horizon(r.timeHorizons.mediumTerm),
                                 longTerm |-> json_horizon(r.timeHorizons.longTerm)]),
          structuralContext |-> JStr(r.structuralContext),
          marketSentiment |-> JStr(r.marketSentiment),
          signals |-> json_strings(r.signals)])

-----------------------------------------------------------------------------
(* The cache table *)

CACHE_TTL_SEC == 600

\* "if cached and (now - cached[1]) < 300" in api_stark_decision
decision_ttl == 300

\* "(now - self._last_refresh) < 5" in refresh_all
refresh_min_interval == 5

\* feed.entries[:25] and deduped[:40] in starkhub.py
tui_per_source_limit == 25

tui_total_limit == 40

\* cache_get: <<>> when there is no row, else <<[value, updated_at]>>
cache_get(table, key) == table[key]

\* an upsert whose DO UPDATE sets the value and leaves updated_at of an
\* existing row as it is
cache_set_value_only(table, key, value, clock) ==
    IF table[key] = None
    THEN [table EXCEPT ![key] = Some([value |-> value, updated_at |-> clock])]
    ELSE [table EXCEPT ![key] = Some([value |-> value, updated_at |-> table[key][1].updated_at])]

\* an upsert with a version test: a row stamped later than this call's
\* clock reading is kept
cache_set_keep_newer(table, key, value, clock) ==
    IF table[key] # None /\ table[key][1].updated_at > clock
    THEN table
    ELSE [table EXCEPT ![key] = Some([value |-> value, updated_at |-> clock])]

\* cache_set without conn.commit(): no other connection sees the row
cache_set_uncommitted(table, key, value, clock) == table

\* cache_set: insert or replace the row, stamped with the clock
cache_set(table, key, value, clock) ==
    [table EXCEPT ![key] = Some([value |-> value, updated_at |-> clock])]

\* a freshness test that no row passes: every read regenerates the entry and
\* stamps it anew
is_fresh_never(row, clock, ttl) == FALSE

\* the freshness test with "<=": a row as old as the TTL still counts as fresh
is_fresh_inclusive(row, clock, ttl) == row # None /\ (clock - row[1].updated_at) <= ttl

\* "cached and (now - cached[1]) < ttl"
is_fresh(row, clock, ttl) == row # None /\ (clock - row[1].updated_at) < ttl

\* starkhub.py fetch_headlines: 25 entries per source, no prioritization,
\* the first 40 of the deduplicated list
tui_fetch_headlines(fd, failing, clock) ==
    LET capped == List([s \in DOMAIN fd |-> Take(fd[s], tui_per_source_limit)])
    IN  Take(dedup(sort_desc(pool(capped, failing, clock))), tui_total_limit)

-----------------------------------------------------------------------------
(* What the outside world hands to the handlers *)

MaxRequests == 2

MaxTicks == 2

MaxDamaged == 1

\* clock advances: the decision window, and one second short of it
TickSteps == {299, 300}

NoFeeds == [s \in DOMAIN RSS_SOURCES |-> <<>>]

\* the feeds at the time of a request
WebFeeds ==
    { NoFeeds,
      [NoFeeds EXCEPT ![1] = <<Entry(<<"a">>, <<"x">>, Some(100), None, FALSE)>>,
                      ![2] = <<Entry(<<"U", "S">>, <<"y">>, None, Some(70), FALSE)>>],
      [NoFeeds EXCEPT ![1] = <<Entry(<<"a", "\n", "b">>, <<"x">>, Some(100), None, FALSE)>>],
      [NoFeeds EXCEPT ![3] = <<Entry(<<"a", "|", "b">>, <<"c">>, Some(100), None, FALSE)>>] }

\* the feeds at the time of a decision request (only the number of headlines
\* reaches the decision)
DecisionFeeds == {fd \in WebFeeds : fd[3] = <<>> /\ (fd[1] = <<>> <=> fd[2] = <<>>)}

NoQuote == <<None, None>>

\* what fetch_market_pulse returns at the time of a request (app.py)
WebPulses ==
    { List(PulseOf(<<NoQuote, NoQuote, NoQuote, NoQuote, NoQuote, NoQuote, NoQuote, NoQuote, NoQuote>>)),
      List(PulseOf(<<<<Some(5000), Some(-150)>>, NoQuote, NoQuote, <<Some(2550), Some(0)>>, NoQuote,
                     NoQuote, <<Some(2300), Some(60)>>, NoQuote, <<Some(450), Some(-25)>>>>)) }

TuiPulseOf(c) == List([i \in DOMAIN STOOQ_SYMBOLS |-> Quote(STOOQ_SYMBOLS[i][1], c[i])])

\* what fetch_market_pulse returns at the time of a refresh (starkhub.py)
TuiPulses ==
    { TuiPulseOf(<<NoQuote, NoQuote, NoQuote, NoQuote, NoQuote, NoQuote, NoQuote, NoQuote, NoQuote>>),
      TuiPulseOf(<<<<Some(5000), Some(-150)>>, <<Some(18000), Some(5)>>, NoQuote, <<Some(2550), Some(0)>>,
                   NoQuote, NoQuote, NoQuote, NoQuote, NoQuote>>) }

\* a document of the shape the prompt asks for
BackendDocument ==
    decision_json([generate_fallback_decision(
                       List(PulseOf(<<<<Some(5000), Some(150)>>, NoQuote, NoQuote, <<Some(1700), Some(0)>>,
                                      NoQuote, NoQuote, NoQuote, NoQuote, <<Some(350), Some(0)>>>>)), <<>>)
                   EXCEPT !.structuralContext = Txt("FORECAST: written by the generative backend", <<>>)])

\* what client.chat.completions.create() does: it raises, it times out, or
\* it returns a message with this content
BackendOutcomes ==
    << [kind |-> "raise", content |-> <<>>],
      [kind |-> "timeout", content |-> <<>>],
      [kind |-> "content", content |-> <<"S", "o", "r", "r", "y">>],
      [kind |-> "content", content |-> json_dumps(BackendDocument)],
      [kind |-> "content", content |-> json_dumps(JObj([regime |-> BackendDocument.v.regime]))],
      [kind |-> "content",
       content |-> json_dumps(JObj([BackendDocument.v EXCEPT !.signals = JStr(Txt("none", <<>>))]))],
      [kind |-> "content", content |-> json_dumps(JList(<<>>))] >>

\* values of a row that its reader cannot parse, or can parse only in part
MalformedRows(key) ==
    CASE key = "headlines" ->
            { <<"o", "o", "p", "s">>,
              <<"1", "0", "0", "|", "F", "T", "|", "a", "|", "x", "\n", "x", "|", "y">> }
      [] key = "pulse" ->
            { <<"V", "I", "X">>,
              <<"V", "I", "X", "|", "2", "5", ".", "5", "|", "N", "A", "\n",
                "G", "o", "l", "d", "|", "a", "b", "c", "|", "1", ".", "0">> }
      [] key = "stark_decision" ->
            { <<"{">> }

-----------------------------------------------------------------------------
(* Specification of the cache call sites: the web handlers of app.py and
   refresh_all of starkhub.py share the cache table of starkhub.db *)

WebInit ==
    /\ WebQuiet
    /\ ReqQuiet
    /\ ConnQuiet
    /\ NetQuiet
    /\ now = 1000
    /\ DecisionQuiet
    /\ QuoteQuiet
    /\ FeedQuiet

\* GET /api/headlines
ApiHeadlines(fd) ==
    /\ requests < MaxRequests
    /\ LET h_cache == cache_get(cache, "headlines")
           hit == is_fresh(h_cache, now, CACHE_TTL_SEC)
           fetched_list == fetch_headlines(fd, {}, now)
       IN  /\ path' = IF hit THEN "hit" ELSE "miss"
           /\ response' = Some(IF hit THEN parse_headlines(h_cache[1].value) ELSE fetched_list)
           /\ cache' = IF hit THEN cache
                       ELSE cache_set(cache, "headlines", serialize_headlines(fetched_list), now)
    /\ handler' = "api_headlines"
    /\ raised' = FALSE
    /\ backend' = None
    /\ requests' = requests + 1
    /\ UNCHANGED <<tui_headlines, tui_pulse, tui_last_refresh, ticks, damaged, now>>
    /\ UNCHANGED <<decisionVars, quoteVars, feedVars, reqVars, connVars, netVars>>

\* GET /api/pulse
ApiPulse(pulse_raw) ==
    /\ requests < MaxRequests
    /\ LET p_cache == cache_get(cache, "pulse")
           hit == is_fresh(p_cache, now, CACHE_TTL_SEC)
       IN  /\ path' = IF hit THEN "hit" ELSE "miss"
           /\ response' = Some(IF hit THEN parse_pulse(p_cache[1].value) ELSE pulse_raw)
           /\ cache' = IF hit THEN cache
                       ELSE cache_set(cache, "pulse", serialize_pulse(pulse_raw), now)
    /\ handler' = "api_pulse"
    /\ raised' = FALSE
    /\ backend' = None
    /\ requests' = requests + 1
    /\ UNCHANGED <<tui_headlines, tui_pulse, tui_last_refresh, ticks, damaged, now>>
    /\ UNCHANGED <<decisionVars, quoteVars, feedVars, reqVars, connVars, netVars>>

\* GET /api/stark/decision. have_key: OPENAI_API_KEY is set and the client
\* library is installed. json.loads ignores the white space content.strip()
\* removes, so strip() is not applied to the content here. Without a key the
\* backend is not called, and one outcome stands for all.
ApiStarkDecision(pulse_raw, fd, have_key, outcome) ==
    /\ requests < MaxRequests
    /\ have_key \/ outcome = BackendOutcomes[1]
    /\ LET cached == cache_get(cache, "stark_decision")
           hit == is_fresh(cached, now, decision_ttl)
           from_cache == IF hit THEN json_loads(cached[1].value) ELSE None
           hl == Take(fetch_headlines(fd, {}, now), 15)
           fb == generate_fallback_decision(pulse_raw, hl)
           loaded == IF have_key /\ outcome.kind = "content"
                     THEN json_loads(outcome.content) ELSE None
           result == IF loaded # None THEN loaded[1] ELSE decision_json(fb)
       IN  IF hit
           THEN /\ path' = "hit"
                /\ raised' = (from_cache = None)
                /\ response' = from_cache
                /\ cache' = cache
                /\ backend' = None
                /\ pulse_data' = pulse_raw
                /\ headlines' = <<>>
                /\ fallback_result' = None
           ELSE /\ path' = IF ~have_key THEN "no_key"
                           ELSE IF loaded # None THEN "backend" ELSE "fallback"
                /\ raised' = FALSE
                /\ response' = Some(result)
                /\ cache' = cache_set(cache, "stark_decision", json_dumps(result), now)
                /\ backend' = IF have_key THEN Some(outcome) ELSE None
                /\ pulse_data' = pulse_raw
                /\ headlines' = hl
                /\ fallback_result' = IF loaded # None THEN None ELSE fb
    /\ handler' = "api_stark_decision"
    /\ requests' = requests + 1
    /\ UNCHANGED <<tui_headlines, tui_pulse, tui_last_refresh, ticks, damaged, now>>
    /\ UNCHANGED <<quoteVars, feedVars, reqVars, connVars, netVars>>

\* StarkHub.refresh_all(force)
RefreshAll(force, fd, pulse_raw) ==
    /\ requests < MaxRequests
    /\ LET skip == ~force /\ (now - tui_last_refresh) < refresh_min_interval
           h_cache == cache_get(cache, "headlines")
           h_hit == is_fresh(h_cache, now, CACHE_TTL_SEC) /\ ~force
           hl == IF h_hit THEN parse_headlines(h_cache[1].value)
                 ELSE tui_fetch_headlines(fd, {}, now)
           cache1 == IF h_hit THEN cache
                     ELSE cache_set(cache, "headlines", serialize_headlines(hl), now)
           p_cache == cache_get(cache1, "pulse")
           p_hit == is_fresh(p_cache, now, CACHE_TTL_SEC) /\ ~force
           p_raises == p_hit /\ parse_pulse_raises(p_cache[1].value)
       IN  IF skip
           THEN /\ path' = "skipped"
                /\ raised' = FALSE
                /\ UNCHANGED <<cache, tui_headlines, tui_pulse, tui_last_refresh>>
           ELSE /\ path' = IF h_hit THEN (IF p_hit THEN "hit" ELSE "hit_miss")
                           ELSE (IF p_hit THEN "miss_hit" ELSE "miss")
                /\ raised' = p_raises
                /\ tui_headlines' = hl
                /\ tui_pulse' = IF p_raises THEN tui_pulse
                                ELSE IF p_hit THEN parse_pulse(p_cache[1].value)
                                ELSE pulse_raw
                /\ cache' = IF p_hit THEN cache1
                            ELSE cache_set(cache1, "pulse", serialize_pulse(pulse_raw), now)
                /\ tui_last_refresh' = IF p_raises THEN tui_last_refresh ELSE now
    /\ handler' = "refresh_all"
    /\ response' = None
    /\ backend' = None
    /\ requests' = requests + 1
    /\ UNCHANGED <<ticks, damaged, now>>
    /\ UNCHANGED <<decisionVars, quoteVars, feedVars, reqVars, connVars, netVars>>

\* time passes
Tick(d) ==
    /\ ticks < MaxTicks
    /\ requests < MaxRequests
    /\ now' = now + d
    /\ ticks' = ticks + 1
    /\ UNCHANGED <<cache, handler, path, raised, response, backend,
                   tui_headlines, tui_pulse, tui_last_refresh, requests, damaged>>
    /\ UNCHANGED <<decisionVars, quoteVars, feedVars, reqVars, connVars, netVars>>

\* the value of a row is left malformed (an interrupted or foreign write to
\* starkhub.db); its updated_at stays
Damage(key, value) ==
    /\ damaged < MaxDamaged
    /\ requests < MaxRequests
    /\ cache[key] # None
    /\ cache' = [cache EXCEPT ![key] = Some([value |-> value, updated_at |-> cache[key][1].updated_at])]
    /\ damaged' = damaged + 1
    /\ UNCHANGED <<handler, path, raised, response, backend,
                   tui_headlines, tui_pulse, tui_last_refresh, requests, ticks, now>>
    /\ UNCHANGED <<decisionVars, quoteVars, feedVars, reqVars, connVars, netVars>>

WebNext ==
    \/ \E fd \in WebFeeds : ApiHeadlines(fd)
    \/ \E pulse_raw \in WebPulses : ApiPulse(pulse_raw)
    \/ \E pulse_raw \in WebPulses, fd \in DecisionFeeds, have_key \in BOOLEAN,
          i \in DOMAIN BackendOutcomes :
           ApiStarkDecision(pulse_raw, fd, have_key, BackendOutcomes[i])
    \/ \E force \in BOOLEAN, fd \in WebFeeds, pulse_raw \in TuiPulses : RefreshAll(force, fd, pulse_raw)
    \/ \E d \in TickSteps : Tick(d)
    \/ \E key \in CacheKeys : \E value \in MalformedRows(key) : Damage(key, value)

SpecWeb == WebInit /\ [][WebNext]_vars

-----------------------------------------------------------------------------
(* Properties of the cache call sites *)

\* the step is one call of the named handler
Handled(name) == requests' = requests + 1 /\ handler' = name

SchemaKeys ==
    {"regime", "whatChanged", "winners", "losers", "opportunityZones", "whatBreaks",
     "timeHorizons", "structuralContext", "marketSentiment", "signals"}

IsJStr(x) == x.type = "string"

IsJStrList(x, max) ==
    x.type = "array" /\ Len(x.v) <= max /\ \A i \in 1..Len(x.v) : IsJStr(x.v[i])

IsJHorizon(x) ==
    /\ x.type = "object"
    /\ DOMAIN x.v = {"horizon", "view", "action"}
    /\ IsJStr(x.v.horizon) /\ IsJStr(x.v.view) /\ IsJStr(x.v.action)

\* the DecisionRecord schema
matches_schema(x) ==
    /\ x.type = "object"
    /\ DOMAIN x.v = SchemaKeys
    /\ IsJStr(x.v.regime) /\ IsJStr(x.v.structuralContext) /\ IsJStr(x.v.marketSentiment)
    /\ IsJStrList(x.v.whatChanged, 3) /\ IsJStrList(x.v.winners, 3) /\ IsJStrList(x.v.losers, 3)
    /\ IsJStrList(x.v.opportunityZones, 5) /\ IsJStrList(x.v.whatBreaks, 3)
    /\ IsJStrList(x.v.signals, 3)
    /\ x.v.timeHorizons.type = "object"
    /\ DOMAIN x.v.timeHorizons.v = {"shortTerm", "mediumTerm", "longTerm"}
    /\ IsJHorizon(x.v.timeHorizons.v.shortTerm)
    /\ IsJHorizon(x.v.timeHorizons.v.mediumTerm)
    /\ IsJHorizon(x.v.timeHorizons.v.longTerm)

\* the backend call errored, timed out, or returned something that is not a
\* DecisionRecord document
BackendFailed(outcome) ==
    \/ outcome.kind # "content"
    \/ json_loads(outcome.content) = None
    \/ ~matches_schema(json_loads(outcome.content)[1])

\* C2: whenever the decision endpoint calls the generative backend and the
\* call errors, times out or returns a response that does not match the
\* DecisionRecord schema, the endpoint takes the fallback path: it returns the
\* output of generate_fallback_decision for the request's pulse data and
\* headlines, and the stark_decision row holds that output.
C2_BackendFailureFallsBack ==
    [][ (Handled("api_stark_decision") /\ backend' # None /\ BackendFailed(backend'[1])) =>
            /\ path' = "fallback"
            /\ response' = Some(decision_json(generate_fallback_decision(pulse_data', headlines')))
            /\ cache'["stark_decision"] =
                   Some([value |-> json_dumps(decision_json(
                                       generate_fallback_decision(pulse_data', headlines'))),
                         updated_at |-> now]) ]_vars

\* the reader of the row cannot parse the value, or some line of it
Malformed(key, value) ==
    CASE key = "headlines" ->
            \E i \in 1..Len(splitlines(value)) : parse_headline_line(splitlines(value)[i]) = None
      [] key = "pulse" -> parse_pulse_raises(value)
      [] key = "stark_decision" -> json_loads(value) = None

FreshMalformed(key, ttl) ==
    is_fresh(cache[key], now, ttl) /\ Malformed(key, cache[key][1].value)

\* the step took the miss path for the key: no exception left the reader and
\* the row was written at the current clock
TreatedAsMiss(key) ==
    /\ ~raised'
    /\ path' \notin {"hit", "hit_miss", "miss_hit"}
    /\ cache'[key] # None
    /\ cache'[key][1].updated_at = now

\* C4: whenever a reader finds a fresh row with a malformed value (the
\* headlines, pulse and decision endpoints, and every refresh of the TUI that
\* is not skipped), it raises nothing, takes the miss path and rewrites the
\* row.
C4_MalformedRowIsCacheMiss ==
    [][ /\ (Handled("api_headlines") /\ FreshMalformed("headlines", CACHE_TTL_SEC))
               => TreatedAsMiss("headlines")
        /\ (Handled("api_pulse") /\ FreshMalformed("pulse", CACHE_TTL_SEC))
               => TreatedAsMiss("pulse")
        /\ (Handled("api_stark_decision") /\ FreshMalformed("stark_decision", decision_ttl))
               => TreatedAsMiss("stark_decision")
        /\ (Handled("refresh_all") /\ path' # "skipped" /\ FreshMalformed("headlines", CACHE_TTL_SEC))
               => TreatedAsMiss("headlines")
        /\ (Handled("refresh_all") /\ path' # "skipped" /\ FreshMalformed("pulse", CACHE_TTL_SEC))
               => TreatedAsMiss("pulse") ]_vars


\* value and pct of a quote are both present or both absent
Paired(q) == (q.value = None) <=> (q.pct = None)

AllPaired(pr) == \A i \in 1..Len(pr) : Paired(pr[i])

\* C15: as long as the rows of the cache table are those the handlers wrote,
\* every quote has value and pct both present or both absent: in the list
\* api_pulse returns (fetched, or parsed from the cached row), in the list
\* refresh_all keeps, in the pulse given to the decision engine, and in what
\* the cached pulse row parses to, whatever fetches, cache writes, cache
\* reads and expiries came before.
C15_ValueAndPctTogether ==
    damaged = 0 =>
        /\ (handler = "api_pulse" /\ ~raised) => AllPaired(response[1])
        /\ AllPaired(tui_pulse)
        /\ AllPaired(pulse_data)
        /\ cache["pulse"] # None =>
              /\ ~parse_pulse_raises(cache["pulse"][1].value)
              /\ AllPaired(parse_pulse(cache["pulse"][1].value))

\* api_pulse answered from the cached row, with quotes present and absent
C15_Witness ==
    /\ damaged = 0
    /\ handler = "api_pulse"
    /\ path = "hit"
    /\ Len(response[1]) = Len(MARKET_SYMBOLS)
    /\ response[1][1].value # None
    /\ response[1][1].pct # None
    /\ response[1][4].pct = Some(0)
    /\ response[1][2].value = None
    /\ response[1][2].pct = None

-----------------------------------------------------------------------------
(* Further claims about the decision engine *)

HorizonKeys == {"shortTerm", "mediumTerm", "longTerm"}

HorizonFields == {"horizon", "view", "action"}

\* C17: the record generate_fallback_decision returns has exactly the keys
\* of the schema, timeHorizons has shortTerm, mediumTerm and longTerm, each
\* with horizon, view and action, and no list is longer than 3 entries
\* (opportunityZones: 5), however many quotes are missing.
C17_EveryKeyPresentListsCapped ==
    fallback_result # None =>
        /\ DOMAIN fallback_result = SchemaKeys
        /\ DOMAIN fallback_result.timeHorizons = HorizonKeys
        /\ \A h \in HorizonKeys : DOMAIN fallback_result.timeHorizons[h] = HorizonFields
        /\ Len(fallback_result.whatChanged) <= 3
        /\ Len(fallback_result.winners) <= 3
        /\ Len(fallback_result.losers) <= 3
        /\ Len(fallback_result.whatBreaks) <= 3
        /\ Len(fallback_result.signals) <= 3
        /\ Len(fallback_result.opportunityZones) <= 5

\* the record for a pulse in which every quote is missing
C17_Witness ==
    /\ fallback_result # None
    /\ \A i \in DOMAIN pulse_data : pulse_data[i].value = None /\ pulse_data[i].pct = None
    /\ DOMAIN fallback_result = SchemaKeys
    /\ DOMAIN fallback_result.timeHorizons.shortTerm = HorizonFields

\* a record whose lists are as long as they get
C17_WitnessFullLists ==
    /\ fallback_result # None
    /\ Len(fallback_result.whatChanged) = 3
    /\ Len(fallback_result.winners) = 3
    /\ Len(fallback_result.losers) = 3
    /\ Len(fallback_result.whatBreaks) = 3
    /\ Len(fallback_result.signals) = 2
    /\ Len(fallback_result.opportunityZones) = 3

\* the drivers that clear their materiality threshold
EquityMoved == Present("S&P 500") /\ Abs(PctOf("S&P 500")) > 50

RateMoved == Present("10Y Treasury") /\ Abs(PctOf("10Y Treasury")) > 10

VolatilityHigh == Present("VIX") /\ ValueOf("VIX") > 1800

EquityBullet ==
    Txt("S&P 500 at {:.2f}, {:+.2f}% -> FORECAST: trend likely to continue near-term",
        <<ValueOf("S&P 500"), PctOf("S&P 500")>>)

RateBullet ==
    Txt("US10Y at {:.2f}%, {:+.2f}% -> FORECAST: rate moves likely to drive equity direction",
        <<ValueOf("10Y Treasury"), PctOf("10Y Treasury")>>)

VolatilityBullet ==
    Txt("VIX at {:.2f} -> FORECAST: elevated volatility likely to persist", <<ValueOf("VIX")>>)

ConsolidatingBullet ==
    Txt("Markets consolidating -> FORECAST: awaiting catalyst for direction", <<>>)

\* the number of entries of list l equal to x
Occurrences(l, x) == Cardinality({i \in 1..Len(l) : l[i] = x})

\* C18: whatChanged has one bullet for each driver that clears its
\* threshold (S&P 500 |pct| > 0.5, 10Y |pct| > 0.1, VIX value > 18) and no
\* other bullet; when no driver clears its threshold it is the single
\* consolidating bullet; it never has more than 3 entries.
C18_WhatChangedBullets ==
    fallback_result # None =>
        LET wc == fallback_result.whatChanged
            n == (IF EquityMoved THEN 1 ELSE 0) + (IF RateMoved THEN 1 ELSE 0)
                 + (IF VolatilityHigh THEN 1 ELSE 0)
        IN  /\ Len(wc) <= 3
            /\ n = 0 => wc = <<ConsolidatingBullet>>
            /\ n > 0 =>
                  /\ Len(wc) = n
                  /\ EquityMoved => Occurrences(wc, EquityBullet) = 1
                  /\ RateMoved => Occurrences(wc, RateBullet) = 1
                  /\ VolatilityHigh => Occurrences(wc, VolatilityBullet) = 1

\* the equity and the volatility driver clear their thresholds, the rate
\* driver is present and does not
C18_Witness ==
    /\ fallback_result # None
    /\ EquityMoved
    /\ Present("10Y Treasury") /\ ~RateMoved
    /\ VolatilityHigh
    /\ fallback_result.whatChanged = <<EquityBullet, VolatilityBullet>>

\* every driver is present and none clears its threshold
C18_WitnessConsolidating ==
    /\ fallback_result # None
    /\ Present("S&P 500") /\ PctOf("S&P 500") = 50
    /\ Present("10Y Treasury") /\ PctOf("10Y Treasury") = 10
    /\ Present("VIX") /\ ValueOf("VIX") = 1800
    /\ fallback_result.whatChanged = <<ConsolidatingBullet>>

\* C19: the short-term view is the volatility template with the VIX level,
\* and the medium-term view is the rate template with the 10Y level; when
\* the quote is absent the same template is used with the level 0.
C19_ViewsUseLevelOrZero ==
    fallback_result # None =>
        /\ fallback_result.timeHorizons.shortTerm.view =
              Txt("FORECAST: Current volatility ({:.1f}) likely to drive intraday moves",
                  <<IF Present("VIX") THEN ValueOf("VIX") ELSE 0>>)
        /\ fallback_result.timeHorizons.mediumTerm.view =
              Txt("FORECAST: Rate environment ({:.2f}%) likely to drive sector rotation",
                  <<IF Present("10Y Treasury") THEN ValueOf("10Y Treasury") ELSE 0>>)

-----------------------------------------------------------------------------
(* Concurrent requests on one cache table: each process runs the handler
   api_headlines / api_pulse for one key (get_db, the clock, cache_get, the
   freshness test, then on a miss the fetch and cache_set). A statement of
   SQLite (the SELECT of cache_get, the INSERT ... ON CONFLICT of cache_set
   with its commit) is one step; everything between two statements of a
   process can interleave with the other processes and with the clock. *)

MaxProcs == 2

Procs == 1..MaxProcs

\* the keys the concurrent handlers work on
SharedKeys == {"headlines", "pulse"}

ClockSteps == {1, CACHE_TTL_SEC}

IdleRequest ==
    [pc |-> "idle", key |-> "headlines", now |-> 0, got |-> None, path |-> "none",
     order |-> 0, val |-> <<>>, wnow |-> 0]

\* what the fetch started as number n returns
FetchResult(n) == <<"f">> \o str_int(n)

CacheInit ==
    /\ rq = [p \in Procs |-> IdleRequest]
    /\ fetches = 0
    /\ last_write = [k \in CacheKeys |-> None]
    /\ ConnQuiet
    /\ NetQuiet
    /\ WebQuiet
    /\ DecisionQuiet
    /\ QuoteQuiet
    /\ FeedQuiet
    /\ now = 0

\* conn = get_db(); now = int(time.time())
StartRequest(p, k) ==
    /\ rq[p].pc \in {"idle", "done"}
    /\ requests < MaxRequests
    /\ rq' = [rq EXCEPT ![p] = [IdleRequest EXCEPT !.pc = "started", !.key = k, !.now = now]]
    /\ requests' = requests + 1
    /\ UNCHANGED <<cache, handler, path, raised, response, backend,
                   tui_headlines, tui_pulse, tui_last_refresh, ticks, damaged, now>>
    /\ UNCHANGED <<fetches, last_write>>
    /\ UNCHANGED <<decisionVars, quoteVars, feedVars, connVars, netVars>>

\* h_cache = cache_get(conn, key); "if h_cache and (now - h_cache[1]) <
\* CACHE_TTL_SEC" serves the row, else the fetch starts
GetAndDecide(p) ==
    /\ rq[p].pc = "started"
    /\ LET row == cache_get(cache, rq[p].key)
           hit == is_fresh(row, rq[p].now, CACHE_TTL_SEC)
       IN  /\ rq' = [rq EXCEPT ![p].got = row,
                                ![p].path = IF hit THEN "hit" ELSE "miss",
                                ![p].pc = IF hit THEN "done" ELSE "fetching",
                                ![p].order = IF hit THEN 0 ELSE fetches + 1,
                                ![p].val = IF hit THEN row[1].value ELSE FetchResult(fetches + 1)]
           /\ fetches' = IF hit THEN fetches ELSE fetches + 1
    /\ UNCHANGED <<webVars, last_write, now>>
    /\ UNCHANGED <<decisionVars, quoteVars, feedVars, connVars, netVars>>

\* the fetch has returned and cache_set runs "now = int(time.time())"
StampWrite(p) ==
    /\ rq[p].pc = "fetching"
    /\ rq' = [rq EXCEPT ![p].pc = "stamped", ![p].wnow = now]
    /\ UNCHANGED <<webVars, fetches, last_write, now>>
    /\ UNCHANGED <<decisionVars, quoteVars, feedVars, connVars, netVars>>

\* cache_set: the INSERT ... ON CONFLICT DO UPDATE and conn.commit()
CommitWrite(p) ==
    /\ rq[p].pc = "stamped"
    /\ cache' = cache_set(cache, rq[p].key, rq[p].val, rq[p].wnow)
    /\ last_write' = [last_write EXCEPT ![rq[p].key] =
                          Some([proc |-> p, value |-> rq[p].val, stamp |-> rq[p].wnow,
                                order |-> rq[p].order])]
    /\ rq' = [rq EXCEPT ![p].pc = "done"]
    /\ UNCHANGED <<handler, path, raised, response, backend,
                   tui_headlines, tui_pulse, tui_last_refresh, requests, ticks, damaged, now>>
    /\ UNCHANGED fetches
    /\ UNCHANGED <<decisionVars, quoteVars, feedVars, connVars, netVars>>

\* time passes
CacheTick(d) ==
    /\ ticks < MaxTicks
    /\ now' = now + d
    /\ ticks' = ticks + 1
    /\ UNCHANGED <<cache, handler, path, raised, response, backend,
                   tui_headlines, tui_pulse, tui_last_refresh, requests, damaged>>
    /\ UNCHANGED reqVars
    /\ UNCHANGED <<decisionVars, quoteVars, feedVars, connVars, netVars>>

CacheNext ==
    \/ \E p \in Procs, k \in SharedKeys : StartRequest(p, k)
    \/ \E p \in Procs : GetAndDecide(p)
    \/ \E p \in Procs : StampWrite(p)
    \/ \E p \in Procs : CommitWrite(p)
    \/ \E d \in ClockSteps : CacheTick(d)

SpecCache == CacheInit /\ [][CacheNext]_vars

-----------------------------------------------------------------------------
(* Claims about the cache table under concurrent requests *)

\* process p executes its cache_get in this step
GetStep(p) == rq[p].pc = "started" /\ rq'[p].pc # "started"

\* C21: cache_get(k) returns the (value, updated_at) of the cache_set(k, v)
\* that committed last, with now - updated_at = 0 when the clock has not
\* advanced since that cache_set read it; it returns a miss (None) for a key
\* never written; and it changes no row.
C21_GetAfterSet ==
    [][\A p \in Procs : GetStep(p) =>
          LET lw == last_write[rq[p].key] IN
          /\ cache' = cache
          /\ lw = None => rq'[p].got = None
          /\ lw # None => rq'[p].got = Some([value |-> lw[1].value, updated_at |-> lw[1].stamp])
          /\ (lw # None /\ now = lw[1].stamp) => now - rq'[p].got[1].updated_at = 0]_vars

\* a request that read the row another request had just written, the clock
\* not having advanced
C21_Witness ==
    \E p \in Procs :
        /\ rq[p].pc = "done"
        /\ rq[p].path = "hit"
        /\ last_write[rq[p].key] # None
        /\ last_write[rq[p].key][1].proc # p
        /\ rq[p].got = Some([value |-> last_write[rq[p].key][1].value, updated_at |-> now])
        /\ rq[p].now = now
        /\ now > 0

-----------------------------------------------------------------------------
(* Claims about the freshness windows of the call sites *)

\* the age the handler computes for the row of a key
Age(key) == now - cache[key][1].updated_at

\* the step served the row of the key only if its age was below the TTL, and
\* a row whose age had reached the TTL was replaced by a new one stamped now
FreshOrRefetched(key, ttl, hit_paths) ==
    /\ path' \in hit_paths => (cache[key] # None /\ Age(key) < ttl)
    /\ (cache[key] # None /\ Age(key) >= ttl) =>
          /\ path' \notin hit_paths
          /\ cache'[key] # None
          /\ cache'[key][1].updated_at = now

\* C22: api_headlines, api_pulse (TTL 600 s), api_stark_decision (TTL 300 s)
\* and every refresh of the TUI that is not skipped (TTL 600 s) serve a row
\* only if now - updated_at < TTL; a row whose age is equal to or greater
\* than the TTL is not served and is replaced by a new fetch or generation.
C22_ServedOnlyWhileFresh ==
    [][ /\ Handled("api_headlines") => FreshOrRefetched("headlines", 600, {"hit"})
        /\ Handled("api_pulse") => FreshOrRefetched("pulse", 600, {"hit"})
        /\ Handled("api_stark_decision") => FreshOrRefetched("stark_decision", 300, {"hit"})
        /\ (Handled("refresh_all") /\ path' # "skipped") =>
              /\ FreshOrRefetched("headlines", 600, {"hit", "hit_miss"})
              /\ FreshOrRefetched("pulse", 600, {"hit", "miss_hit"}) ]_vars

\* the decision endpoint was called at 1000 and again at 1300: the row was
\* exactly 300 s old and a new decision was generated
C22_Witness ==
    /\ handler = "api_stark_decision"
    /\ requests = 2
    /\ ticks = 1
    /\ now = 1300
    /\ path \notin {"hit", "none"}
    /\ cache["headlines"] = None
    /\ cache["pulse"] = None
    /\ tui_last_refresh = 0
    /\ cache["stark_decision"] # None
    /\ cache["stark_decision"][1].updated_at = 1300

\* process p commits its cache_set in this step
CommitStep(p) == rq[p].pc = "stamped" /\ rq'[p].pc = "done"

\* the row of key k is the (value, updated_at) pair of the cache_set call
\* on k that committed last; there is no row when no call committed
RowIsLastCommit(k) ==
    IF last_write[k] = None THEN cache[k] = None
    ELSE cache[k] = Some([value |-> last_write[k][1].value,
                          updated_at |-> last_write[k][1].stamp])

\* C23: however the cache_set calls of concurrent requests interleave, the
\* row of a key holds the value and the updated_at of one and the same
\* completed call, the one that committed last, which is what every later
\* read observes; a cache_set on one key leaves the rows of the other keys
\* as they were.
C23_AtomicUpsert ==
    [][ /\ \A k \in CacheKeys : RowIsLastCommit(k)'
        /\ \A p \in Procs : CommitStep(p) =>
              /\ cache'[rq[p].key] = Some([value |-> rq[p].val, updated_at |-> rq[p].wnow])
              /\ \A k \in CacheKeys : k # rq[p].key => cache'[k] = cache[k] ]_vars

\* two calls on the same key overlapped: the one that read the clock first
\* committed last, and the row holds its value with its (older) timestamp
C23_Witness ==
    \E p, q \in Procs :
        /\ p # q
        /\ rq[p].pc = "done" /\ rq[q].pc = "done"
        /\ rq[p].path = "miss" /\ rq[q].path = "miss"
        /\ rq[p].key = rq[q].key
        /\ rq[p].wnow < rq[q].wnow
        /\ last_write[rq[p].key][1].proc = p
        /\ cache[rq[p].key] = Some([value |-> rq[p].val, updated_at |-> rq[p].wnow])

\* C28 as stated: when requests on the same key fetch concurrently, the
\* result of a fetch that started earlier never replaces in the cache the
\* result of a fetch that started later.
C28_LastStartedWins ==
    [][ \A p \in Procs :
          (/\ CommitStep(p)
           /\ last_write[rq[p].key] # None
           /\ last_write[rq[p].key][1].order > rq[p].order)
          => cache'[rq[p].key] = cache[rq[p].key] ]_vars

\* C28: when requests on the same key fetch concurrently, the value left in
\* the cache is the result of the fetch whose cache_set committed last,
\* whether that fetch started before or after the others.
C28_LastCommitWins ==
    \A k \in SharedKeys :
        last_write[k] # None =>
            /\ cache[k] # None
            /\ cache[k][1].value = FetchResult(last_write[k][1].order)

\* both requests found no row for the key and fetched; the fetch that started
\* first committed last and its result is the one in the cache
C28_Witness ==
    \E p, q \in Procs :
        /\ p # q
        /\ rq[p].key = rq[q].key
        /\ rq[p].path = "miss" /\ rq[q].path = "miss"
        /\ rq[p].got = None /\ rq[q].got = None
        /\ rq[p].pc = "done" /\ rq[q].pc = "done"
        /\ rq[p].order < rq[q].order
        /\ last_write[rq[p].key][1].order = rq[p].order
        /\ cache[rq[p].key][1].value = FetchResult(rq[p].order)

-----------------------------------------------------------------------------
(* Claims about the window of a fallback decision *)

\* C24: a decision that api_stark_decision wrote to the cache from the
\* fallback engine after the backend failed is served for a shorter window
\* than a decision of the backend: in the last second of the backend's
\* window (age decision_ttl - 1) the fallback row is no longer served.
C24_FallbackWindowShorter ==
    [][ (/\ handler = "api_stark_decision"
         /\ path = "fallback"
         /\ damaged = 0
         /\ Handled("api_stark_decision")
         /\ Age("stark_decision") >= decision_ttl - 1)
        => path' # "hit" ]_vars

-----------------------------------------------------------------------------
(* Claims about what a read does to the entry *)

\* the request of this step found a fresh row for the key and left the row
\* as it was
FreshReadKeepsRow(key, ttl) ==
    (cache[key] # None /\ Age(key) < ttl) =>
        /\ path' = "hit"
        /\ cache'[key] = cache[key]

\* C27: a request of api_headlines, api_pulse or api_stark_decision that
\* finds a fresh row serves it and leaves its value and updated_at as they
\* were; the updated_at of a row changes only when a request regenerates the
\* entry and stamps it with the current time, and the clock never goes
\* back: the instant updated_at + TTL at which the entry becomes stale is
\* not moved by reading it.
C27_ReadNeverRefreshes ==
    [][ /\ Handled("api_headlines") => FreshReadKeepsRow("headlines", 600)
        /\ Handled("api_pulse") => FreshReadKeepsRow("pulse", 600)
        /\ Handled("api_stark_decision") => FreshReadKeepsRow("stark_decision", 300)
        /\ now' >= now
        /\ \A k \in CacheKeys :
              cache[k] # None =>
                  /\ cache'[k] # None
                  /\ \/ cache'[k][1].updated_at = cache[k][1].updated_at
                     \/ /\ cache'[k][1].updated_at = now
                        /\ requests' = requests + 1
                        /\ path' # "hit" ]_vars

\* the decision written at 1000 was read at 1299, one second before it
\* becomes stale, and still carries the timestamp 1000
C27_Witness ==
    /\ handler = "api_stark_decision"
    /\ path = "hit"
    /\ requests = 2
    /\ damaged = 0
    /\ now = 1299
    /\ cache["stark_decision"] # None
    /\ cache["stark_decision"][1].updated_at = 1000

-----------------------------------------------------------------------------
(* Claims about the round trip of the cached headline list *)

HasChar(text, ch) == \E i \in 1..Len(text) : text[i] = ch

\* no "|" in source and title, no line break in any field
Delimited(h) ==
    /\ ~HasChar(h.source, "|") /\ ~HasChar(h.title, "|")
    /\ ~HasChar(h.source, "\n") /\ ~HasChar(h.title, "\n") /\ ~HasChar(h.link, "\n")

\* this step answers api_headlines from the row that the previous request,
\* a miss of api_headlines, wrote
ReadsBackOwnWrite ==
    /\ handler = "api_headlines"
    /\ path = "miss"
    /\ damaged = 0
    /\ Handled("api_headlines")
    /\ path' = "hit"

\* the first half of C26 alone: lists without delimiter and line break in
\* their fields come back as they were written
RoundTripOfDelimited ==
    [][ (ReadsBackOwnWrite /\ \A i \in 1..Len(response[1]) : Delimited(response[1][i]))
        => response' = response ]_vars

\* C26: parsing the string that the miss path of api_headlines cached gives
\* the same headlines in the same order when no source and no title contains
\* "|" and no field contains a line break; and a headline whose source or
\* title contains "|" does not come back with altered fields: every headline
\* read back on the hit path is one of the headlines that were written.
C26_HeadlinesRoundTrip ==
    [][ ReadsBackOwnWrite =>
          /\ (\A i \in 1..Len(response[1]) : Delimited(response[1][i]))
                => response' = response
          /\ (\A i \in 1..Len(response[1]) :
                  ~HasChar(response[1][i].title, "\n") /\ ~HasChar(response[1][i].link, "\n")
                  /\ ~HasChar(response[1][i].source, "\n"))
                => \A j \in 1..Len(response'[1]) :
                       \E i \in 1..Len(response[1]) : response'[1][j] = response[1][i] ]_vars

-----------------------------------------------------------------------------
(* Claims about the inputs the decision depends on *)

\* the labels generate_fallback_decision looks up and uses
UsedLabels == {"S&P 500", "NASDAQ", "VIX", "10Y Treasury", "Gold"}

\* quotes put in the place of the quotes of the other labels
OtherQuotes == {<<None, None>>, <<Some(9900), Some(-900)>>, <<Some(2500), None>>}

\* quotes without value or without pct put in the place of such quotes
PartialQuotes == {<<None, None>>, <<Some(2500), None>>, <<None, Some(-900)>>}

\* the pulse with every quote of another label replaced by o and every
\* quote lacking value or pct replaced by p
VariantPulse(pd, o, p) ==
    List([i \in DOMAIN pd |->
            IF pd[i].label \notin UsedLabels THEN Quote(pd[i].label, o)
            ELSE IF pd[i].value = None \/ pd[i].pct = None THEN Quote(pd[i].label, p)
            ELSE pd[i]])

\* as many headlines, every field different
VariantHeadlines(hl) ==
    List([i \in DOMAIN hl |->
            [source |-> <<"z">>, title |-> hl[i].title \o <<"!">>,
             link |-> hl[i].link \o <<"?">>, published_ts |-> hl[i].published_ts + 1]])

\* C30: the record of generate_fallback_decision is the record it returns
\* for any pulse that differs only in the quotes of ASX 200, Dow Jones,
\* AUD/USD and Oil and in quotes that lack value or pct, and for any list of
\* as many headlines with other contents.
C30_DependsOnlyOnUsedQuotes ==
    fallback_result # None =>
        \A o \in OtherQuotes, p \in PartialQuotes :
            generate_fallback_decision(VariantPulse(pulse_data, o, p), VariantHeadlines(headlines))
                = fallback_result

\* a decision from a pulse with an ASX 200 quote, a VIX quote without pct
\* and two headlines
C30_Witness ==
    /\ fallback_result # None
    /\ Len(headlines) = 2
    /\ \E i \in DOMAIN pulse_data :
          pulse_data[i].label = "ASX 200" /\ pulse_data[i].value # None
    /\ \E i \in DOMAIN pulse_data :
          pulse_data[i].label = "VIX" /\ pulse_data[i].value # None /\ pulse_data[i].pct = None
    /\ \E i \in DOMAIN pulse_data :
          pulse_data[i].label = "S&P 500" /\ pulse_data[i].pct # None

-----------------------------------------------------------------------------
(* Specification of the handlers that call the generative backend directly:
   api_synthesis, api_chat, api_analysis and api_news_synthesis. Each opens
   a connection with get_db() and returns on one of several paths. *)

\* conn = get_db(): one more open connection, owned by the handler
get_db(conns, owner) == Append(conns, [owner |-> owner, open |-> TRUE])

\* conn.close() on the connection the handler opened (the last one)
conn_close(conns) == [conns EXCEPT ![Len(conns)].open = FALSE]

\* the handlers test the key, then the package, then call the backend in a
\* try block whose except branch answers with the error
backend_path(have_key, outcome) ==
    IF ~have_key THEN "no_key"
    ELSE IF ~openai_available THEN "unavailable"
    ELSE IF outcome.kind = "content" THEN "backend" ELSE "error"

ConnInit ==
    /\ connections = <<>>
    /\ openai_available \in BOOLEAN
    /\ NetQuiet
    /\ WebQuiet
    /\ ReqQuiet
    /\ DecisionQuiet
    /\ QuoteQuiet
    /\ FeedQuiet
    /\ now = 1000

\* what a handler leaves in the variables of the call sites
Answered(name, taken, body) ==
    /\ handler' = name
    /\ path' = taken
    /\ raised' = FALSE
    /\ response' = Some(body)
    /\ requests' = requests + 1
    /\ UNCHANGED <<cache, tui_headlines, tui_pulse, tui_last_refresh, ticks, damaged, now, openai_available>>
    /\ UNCHANGED <<decisionVars, quoteVars, feedVars, reqVars, netVars>>

\* GET /api/synthesis
ApiSynthesis(have_key, outcome) ==
    /\ requests < MaxRequests
    /\ LET conn == get_db(connections, "api_synthesis")
           taken == backend_path(have_key, outcome)
       IN  /\ connections' = IF taken = "no_key" THEN conn ELSE conn_close(conn)
           /\ backend' = IF taken \in {"backend", "error"} THEN Some(outcome) ELSE None
           /\ Answered("api_synthesis", taken,
                  CASE taken = "no_key" -> Txt("OpenAI API key not configured", <<>>)
                    [] taken = "unavailable" -> Txt("OpenAI not available. Install openai package.", <<>>)
                    [] taken = "backend" -> Txt("{}", <<strip(outcome.content)>>)
                    [] OTHER -> Txt("Error generating synthesis: {}", <<outcome.kind>>))

\* POST /api/chat
ApiChat(question, have_key, outcome) ==
    /\ requests < MaxRequests
    /\ LET conn == get_db(connections, "api_chat")
           taken == IF strip(question) = <<>> THEN "no_question" ELSE backend_path(have_key, outcome)
       IN  /\ connections' = IF taken = "no_question" THEN connections
                             ELSE IF taken = "no_key" THEN conn
                             ELSE conn_close(conn)
           /\ backend' = IF taken \in {"backend", "error"} THEN Some(outcome) ELSE None
           /\ Answered("api_chat", taken,
                  CASE taken = "no_question" -> Txt("No question provided", <<>>)
                    [] taken = "no_key" -> Txt("OpenAI API key not configured", <<>>)
                    [] taken = "unavailable" -> Txt("OpenAI library not installed", <<>>)
                    [] taken = "backend" -> Txt("{}", <<strip(outcome.content)>>)
                    [] OTHER -> Txt("Error: {}", <<outcome.kind>>))

\* GET /api/analysis
ApiAnalysis(have_key, outcome) ==
    /\ requests < MaxRequests
    /\ LET conn == get_db(connections, "api_analysis")
           taken == IF ~openai_available \/ ~have_key THEN "not_configured"
                    ELSE IF outcome.kind = "content" THEN "backend" ELSE "error"
       IN  /\ connections' = IF taken = "not_configured" THEN conn ELSE conn_close(conn)
           /\ backend' = IF taken \in {"backend", "error"} THEN Some(outcome) ELSE None
           /\ Answered("api_analysis", taken,
                  CASE taken = "not_configured" ->
                         Txt("OpenAI API key not configured. Set OPENAI_API_KEY environment variable.", <<>>)
                    [] taken = "backend" -> Txt("{}", <<strip(outcome.content)>>)
                    [] OTHER -> Txt("Error generating analysis: {}", <<outcome.kind>>))

\* GET /api/news/synthesis
ApiNewsSynthesis(have_key, outcome) ==
    /\ requests < MaxRequests
    /\ LET conn == get_db(connections, "api_news_synthesis")
           taken == IF ~openai_available \/ ~have_key THEN "not_configured"
                    ELSE IF outcome.kind = "content" THEN "backend" ELSE "error"
       IN  /\ connections' = IF taken = "not_configured" THEN conn ELSE conn_close(conn)
           /\ backend' = IF taken \in {"backend", "error"} THEN Some(outcome) ELSE None
           /\ Answered("api_news_synthesis", taken,
                  CASE taken = "not_configured" -> Txt("OpenAI API key not configured.", <<>>)
                    [] taken = "backend" -> Txt("{}", <<strip(outcome.content)>>)
                    [] OTHER -> Txt("Error generating synthesis: {}", <<outcome.kind>>))

\* the questions posted to /api/chat
Questions == { <<>>, <<" ">>, <<"w", "h", "y", "?">> }

\* what the backend does when a handler calls it
DirectOutcomes == {BackendOutcomes[1], BackendOutcomes[2], BackendOutcomes[3]}

ConnNext ==
    \/ \E have_key \in BOOLEAN, outcome \in DirectOutcomes : ApiSynthesis(have_key, outcome)
    \/ \E question \in Questions, have_key \in BOOLEAN, outcome \in DirectOutcomes :
           ApiChat(question, have_key, outcome)
    \/ \E have_key \in BOOLEAN, outcome \in DirectOutcomes : ApiAnalysis(have_key, outcome)
    \/ \E have_key \in BOOLEAN, outcome \in DirectOutcomes : ApiNewsSynthesis(have_key, outcome)

SpecConn == ConnInit /\ [][ConnNext]_vars

\* C29: when a handler that opened a connection with get_db has returned,
\* the connection is closed, whichever path the handler took (missing API
\* key, backend unavailable, backend answer, backend error).
C29_EveryPathCloses ==
    \A i \in DOMAIN connections : ~connections[i].open

-----------------------------------------------------------------------------
(* Specification of the network calls: fetch_headlines calls
   feedparser.parse(url) once per source; fetch_market_pulse calls
   ticker.history() once per symbol and, for an index whose yfinance call
   raised, requests.get(url, timeout=10). The remote end answers, fails, or
   stays silent; only a call that passes a timeout is cut short. *)

\* the number of iterations of the loop of the fetch
net_targets(fn) == IF fn = "fetch_headlines" THEN Len(RSS_SOURCES) ELSE Len(MARKET_SYMBOLS)

\* the iteration ends with this result and the loop goes on
net_next(n, result) == [n EXCEPT !.i = n.i + 1, !.pc = "loop", !.out = Append(n.out, result)]

\* what the code does when the call it waits in raises ex (a connection
\* failure, or the timeout of a call that has one): the except branch is
\* the same for every exception, only the message it prints names ex
net_raised(n, ex) ==
    LET caught == [n EXCEPT !.ex = ex]
    IN  CASE n.pc = "feed_call" -> net_next(caught, "skipped")
          [] n.pc = "yf_call" -> IF MARKET_SYMBOLS[n.i][3] = "index"
                                 THEN [caught EXCEPT !.pc = "stooq_call"]
                                 ELSE net_next(caught, "none")
          [] OTHER -> net_next(caught, "none")

NetInit ==
    /\ \E fn \in {"fetch_headlines", "fetch_market_pulse"} :
          net = [fn |-> fn, i |-> 1, pc |-> "loop", out |-> <<>>, ex |-> "none"]
    /\ ConnQuiet
    /\ ReqQuiet
    /\ WebQuiet
    /\ DecisionQuiet
    /\ QuoteQuiet
    /\ FeedQuiet
    /\ now = 0

NetFrame == UNCHANGED <<decisionVars, quoteVars, feedVars, webVars, reqVars, connVars, now>>

\* the loop: the next source or symbol is called, or the fetch returns
NetLoop ==
    /\ net.pc = "loop"
    /\ net' = IF net.i > net_targets(net.fn) THEN [net EXCEPT !.pc = "returned"]
              ELSE IF net.fn = "fetch_headlines" THEN [net EXCEPT !.pc = "feed_call"]
              ELSE [net EXCEPT !.pc = "yf_call"]
    /\ NetFrame

\* the remote end answers the call (with data or with nothing usable), or
\* the connection fails
CallReturns(answer) ==
    /\ net.pc \in {"feed_call", "yf_call", "stooq_call"}
    /\ net' = CASE answer = "raise" -> net_raised(net, "ConnectionError")
                [] answer = "data" -> net_next(net, IF net.pc = "feed_call" THEN "entries" ELSE "quote")
                [] OTHER -> net_next(net, IF net.pc = "feed_call" THEN "entries" ELSE "none")
    /\ NetFrame

\* requests.get(url, timeout=10): after 10 s without an answer the call
\* raises requests.exceptions.Timeout
CallTimesOut ==
    /\ net.pc = "stooq_call"
    /\ net' = net_raised(net, "Timeout")
    /\ NetFrame

NetNext ==
    \/ NetLoop
    \/ \E answer \in {"data", "empty", "raise"} : CallReturns(answer)
    \/ CallTimesOut

\* the interpreter keeps running the loop and the timer of a call that has
\* a timeout fires; nothing makes a remote end answer
SpecNet == NetInit /\ [][NetNext]_vars /\ WF_vars(NetLoop) /\ WF_vars(CallTimesOut)

\* C25: every network call is bounded by a timeout, so that fetch_headlines
\* and fetch_market_pulse eventually return even when a source or a
\* provider never answers.
C25_FetchesEventuallyReturn == <>(net.pc = "returned")
=============================================================================
